---- MODULE Spec2Model ----
(***************************************************************************)
(* A model of the flight-search servers of google-flights-mcp:             *)
(*   - the date-range batch of search_round_trips_in_date_range,           *)
(*   - compare_nearby_airports,                                            *)
(*   - the single-query searches with their SerpApi -> fast-flights        *)
(*     fallback,                                                           *)
(*   - the Amadeus price confirmation with its payload sanitizer,          *)
(*   - the Amadeus OAuth2 token cache of get_access_token.                 *)
(* Each tool has its own variables and its own specification; the          *)
(* variables of the other tools stay at their idle values.                 *)
(***************************************************************************)
EXTENDS Integers, Sequences, FiniteSets, TLC

VARIABLES
    \* ---- search_round_trips_in_date_range ----
    rpc,                  \* "off" | "call" | "loop" | "done"
    rreq,                 \* the arguments of the call
    renv,                 \* SERPAPI_ENABLED and how the sources answer
    date_pairs_to_check,  \* the list the for loop walks
    total_date_pairs,
    count,                \* pairs the loop has finished
    results_data,
    error_messages,
    rcalls,               \* every source call issued, in order
    routput,              \* the JSON the tool returns
    \* ---- compare_nearby_airports ----
    apc,                  \* "off" | "call" | "loop" | "done"
    areq,                 \* the arguments of the call
    aenv,                 \* how fast-flights answers
    comparisons,
    acount,               \* the loop's count
    acalls,               \* every get_flights call issued, in order
    aoutput,              \* the JSON the tool returns
    \* ---- the single-query search tools and hybrid_flight_search ----
    spc,                  \* "off" | "call" | "done"
    sreq,                 \* the tool called and its arguments
    senv,                 \* SERPAPI_ENABLED and how the sources answer
    scalls,               \* every source call issued, in order
    sresponse,            \* what the tool returns (or raises)
    \* ---- the Amadeus server: confirm_flight_price and its sanitizer ----
    ppc,                  \* "off" | "call" | "done"
    pcall,                \* the function called and its argument
    penv,                 \* how the token and the pricing endpoints answer
    offer,                \* the offer object the caller (or json.loads) holds
    sanitized_offer,      \* what sanitize_flight_offer_for_pricing returned
    prequests,            \* every HTTP request sent, in order
    presult,              \* the JSON confirm_flight_price returns
    \* ---- the Amadeus server: the OAuth2 token cache ----
    tenv,                 \* whether the client id and secret are configured
    access_token,         \* the module's _access_token
    token_expiry,         \* the module's _token_expiry (seconds)
    now,                  \* datetime.now() (seconds)
    callers,              \* the amadeus_request tasks and where each is
    issued,               \* <<token, expiry>> of every token response stored
    trequests             \* every HTTP request sent, in order

rvars == <<rpc, rreq, renv, date_pairs_to_check, total_date_pairs, count,
           results_data, error_messages, rcalls, routput>>

avars == <<apc, areq, aenv, comparisons, acount, acalls, aoutput>>

svars == <<spc, sreq, senv, scalls, sresponse>>

pvars == <<ppc, pcall, penv, offer, sanitized_offer, prequests, presult>>

tvars == <<tenv, access_token, token_expiry, now, callers, issued, trequests>>

vars == <<rvars, avars, svars, pvars, tvars>>

----------------------------------------------------------------------------
\* Bounds of the model.
MaxWindow == 8        \* longest date window (days) drawn, besides DocWindow
MaxStay == 1          \* largest min_stay_days / max_stay_days drawn
MaxAirports == 4      \* longest origin / destination airport list drawn
MaxFlights == 4       \* most flights a source returns for one query
MaxItineraries == 2   \* most itineraries a flight offer holds
MaxSegments == 3      \* most legs of a multi-city trip drawn
MaxCallers == 2       \* amadeus_request tasks running at once
MaxClock == 3         \* minutes the clock advances
MaxRequests == 4      \* HTTP requests the Amadeus server sends

\* Program constants.
MAX_DATE_COMBINATIONS == 30
DefaultLimit == 20
DocWindow == 14       \* the docstring's "14 day range with no limits"
None == -1            \* Python's None for an Optional[int] argument

----------------------------------------------------------------------------
\* Python helpers.

Min(a, b) == IF a < b THEN a ELSE b

\* s[a:b] for 0 <= a and 0 <= b (0-based, end exclusive, clipped to len(s)).
PySlice(s, a, b) ==
    LET hi == Min(b, Len(s))
    IN  IF a >= hi THEN <<>> ELSE SubSeq(s, a + 1, hi)

\* s[a:] for 0 <= a.
PySliceFrom(s, a) == PySlice(s, a, Len(s))

\* A date string: either well formed, denoting a day number, or malformed.
\* datetime.strptime(s, '%Y-%m-%d') raises ValueError on the malformed ones.
DateStr(day) == [ok |-> TRUE, day |-> day]
BadDate == [ok |-> FALSE, day |-> 0]
DateOk(s) == s.ok
strptime(s) == s.day

----------------------------------------------------------------------------
\* search_round_trips_in_date_range: the enumeration of the date pairs.

ValidStay(stay_duration, min_stay_days, max_stay_days) ==
    /\ ~(min_stay_days # None /\ stay_duration < min_stay_days)
    /\ ~(max_stay_days # None /\ stay_duration > max_stay_days)

\* The inner loop walking date_list[i + 1:]: no return on the day of departure.
PairsDeparting_NoSameDay(depart_date, end_date, min_stay_days, max_stay_days) ==
    SelectSeq([k \in 1..(end_date - depart_date) |-> <<depart_date, depart_date + k>>],
              LAMBDA p : ValidStay(p[2] - p[1], min_stay_days, max_stay_days))

\* The inner loop for one depart_date: return_date walks date_list[i:].
PairsDeparting(depart_date, end_date, min_stay_days, max_stay_days) ==
    SelectSeq([k \in 1..(end_date - depart_date + 1) |-> <<depart_date, depart_date + k - 1>>],
              LAMBDA p : ValidStay(p[2] - p[1], min_stay_days, max_stay_days))

\* The outer loop: depart_date walks date_list, the days start..end.
RECURSIVE PairsFrom(_, _, _, _)
PairsFrom(depart_date, end_date, min_stay_days, max_stay_days) ==
    IF depart_date > end_date THEN <<>>
    ELSE PairsDeparting(depart_date, end_date, min_stay_days, max_stay_days)
         \o PairsFrom(depart_date + 1, end_date, min_stay_days, max_stay_days)

EnumeratePairs(start_date, end_date, min_stay_days, max_stay_days) ==
    PairsFrom(start_date, end_date, min_stay_days, max_stay_days)

\* A slip in the slice bound: pairs[offset:limit].
PaginatedPairs_EndIsLimit(pairs, offset, limit) ==
    IF limit > 0 THEN PySlice(pairs, offset, limit)
    ELSE PySliceFrom(pairs, offset)

\* paginated_pairs = date_pairs_to_check[offset:offset + limit] if limit > 0
\*                   else date_pairs_to_check[offset:]
PaginatedPairs(pairs, offset, limit) ==
    IF limit > 0 THEN PySlice(pairs, offset, offset + limit)
    ELSE PySliceFrom(pairs, offset)

\* An off-by-one guard: a slice of exactly the ceiling is refused too.
TooManyCombinations_AtCeiling(paginated_pairs) ==
    Len(paginated_pairs) >= MAX_DATE_COMBINATIONS

\* The rate-limit guard on the paginated set.
TooManyCombinations(paginated_pairs) == Len(paginated_pairs) > MAX_DATE_COMBINATIONS

----------------------------------------------------------------------------
\* Prices and flights.

\* float('inf'): what parse_price gives for a price it cannot read.
Inf == 1000000

\* A price as a source hands it over: an int, a '$'-string such as '$268',
\* a string that holds no number, or None.
IntPrice(n) == [t |-> "int", v |-> n]
UsdPrice(n) == [t |-> "usd", v |-> n]
TextPrice == [t |-> "text", v |-> 0]
NonePrice == [t |-> "none", v |-> 0]

parse_price(price) ==
    IF price.t = "none" THEN Inf
    ELSE IF price.t = "int" THEN price.v
    ELSE IF price.t = "usd" THEN price.v     \* int(price.replace('$', '').replace(',', ''))
    ELSE Inf                                 \* ValueError -> float('inf')

\* min(flights, key=...): the first element whose key is the smallest.
RECURSIVE ArgMinFrom(_, _, _)
ArgMinFrom(keys, i, best) ==
    IF i > Len(keys) THEN best
    ELSE ArgMinFrom(keys, i + 1, IF keys[i] < keys[best] THEN i ELSE best)

PyMinIndex(keys) == ArgMinFrom(keys, 2, 1)

\* A fast-flights Flight object (v2.2): price, name, stops, is_best.
Flight(price, name, stops) ==
    [price |-> price, name |-> name, stops |-> stops, is_best |-> FALSE]

\* _flight_to_dict_v2 (full mode): v2.2 exposes no segments.
flight_to_dict(flight) ==
    [price |-> flight.price, airlines |-> flight.name, is_best |-> flight.is_best,
     stops |-> flight.stops, flight_type |-> "Unknown", segments |-> <<>>]

\* A flight of a SerpApi response: price, the raw "flights" array (its
\* length), and the departure_token ("" when the key is absent).
RawFlight(price, nsegs, token) ==
    [price |-> price, flights |-> nsegs, departure_token |-> token]

\* normalize_serpapi_flight counting the legs as stops.
normalize_serpapi_flight_StopsAreLegs(flight_data, is_best) ==
    LET segments == [i \in 1..flight_data.flights |-> [segment_number |-> i]]
    IN  [price |-> flight_data.price, stops |-> Len(segments), segments |-> segments,
         source |-> "SerpApi", is_best_flight |-> is_best]

normalize_serpapi_flight(flight_data, is_best) ==
    LET segments == [i \in 1..flight_data.flights |-> [segment_number |-> i]]
        num_stops == IF Len(segments) > 0 THEN Len(segments) - 1 ELSE 0
    IN  [price |-> flight_data.price, stops |-> num_stops, segments |-> segments,
         source |-> "SerpApi", is_best_flight |-> is_best]

convert_serpapi_response(serpapi_result) ==
    [i \in 1..Len(serpapi_result.best_flights) |->
        normalize_serpapi_flight(serpapi_result.best_flights[i], TRUE)]
    \o [i \in 1..Len(serpapi_result.other_flights) |->
        normalize_serpapi_flight(serpapi_result.other_flights[i], FALSE)]

\* parse_price(f.price), parse_price(f.get("price")): a dict without the key
\* gives None.
\* min(flights, key=lambda f: parse_price(f.price))
CheapestOf(flights) ==
    LET price(f) == IF "price" \in DOMAIN f THEN f.price ELSE NonePrice
    IN  flights[PyMinIndex([i \in 1..Len(flights) |-> parse_price(price(flights[i]))])]

----------------------------------------------------------------------------
\* How the two sources answer one query.
\*   SerpApi (get_flights_from_serpapi): None after any exception, else the
\*   response dict, which may hold no flights.
\*   fast-flights (get_flights): a result with flights, a result without,
\*   or an exception.
NoSerpResult == [none |-> TRUE, best_flights |-> <<>>, other_flights |-> <<>>]
SampleSerpResult ==
    [none |-> FALSE,
     best_flights |-> << RawFlight(IntPrice(250), 1, "tokA") >>,
     other_flights |-> << RawFlight(IntPrice(200), 2, "tokB") >>]

SampleScraperFlights ==
    << Flight(IntPrice(320), "United", 0), Flight(UsdPrice(275), "Delta", 1) >>

SerpAnswer(kind) ==
    IF kind = "none" THEN NoSerpResult
    ELSE IF kind = "empty"
         THEN [none |-> FALSE, best_flights |-> <<>>, other_flights |-> <<>>]
    ELSE SampleSerpResult

\* Truthiness of the dict get_flights_from_serpapi returned.
SerpTruthy(serpapi_result) == ~serpapi_result.none

----------------------------------------------------------------------------
\* search_round_trips_in_date_range.

StayChoices == {None} \cup 0..MaxStay
LimitChoices == {-1, 0, 1, DefaultLimit, MAX_DATE_COMBINATIONS, MAX_DATE_COMBINATIONS + 1}

\* The sources answer by the query: the pairs departing on renv.bad_day get
\* renv.serp from SerpApi and renv.scraper from fast-flights, every other
\* pair gets flights from the source asked first.
RangeEnvs ==
    {[enabled |-> en, bad_day |-> bd, serp |-> se, scraper |-> sc] :
        en \in BOOLEAN, bd \in {None, 1},
        se \in {"none", "empty"}, sc \in {"flights", "empty", "RuntimeError", "Exception"}}

RangeRequest(sd, ed, mn, mx, off, lim, ch) ==
    [start_date_str |-> sd, end_date_str |-> ed, min_stay_days |-> mn,
     max_stay_days |-> mx, offset |-> off, limit |-> lim, return_cheapest_only |-> ch]

RangeRequests ==
    {RangeRequest(DateStr(0), DateStr(d), mn, mx, off, lim, ch) :
        d \in -1..(MaxWindow - 1), mn \in StayChoices, mx \in StayChoices,
        off \in {0, 5, 6}, lim \in LimitChoices, ch \in BOOLEAN}
    \cup
    {RangeRequest(DateStr(0), DateStr(DocWindow - 1), None, None, 0, lim, FALSE) :
        lim \in LimitChoices}
    \cup
    {RangeRequest(sd, ed, None, None, 0, DefaultLimit, FALSE) :
        sd \in {BadDate, DateStr(0)}, ed \in {BadDate, DateStr(1)}}

RangeIdle ==
    /\ date_pairs_to_check = <<>>
    /\ total_date_pairs = 0
    /\ count = 0
    /\ results_data = <<>>
    /\ error_messages = <<>>
    /\ rcalls = <<>>
    /\ routput = [kind |-> "none"]

RangeOff ==
    /\ rpc = "off"
    /\ rreq = [start_date_str |-> BadDate]
    /\ renv = [enabled |-> FALSE]
    /\ RangeIdle

RangeInit ==
    /\ rpc = "call"
    /\ rreq \in RangeRequests
    /\ renv \in {e \in RangeEnvs :
                    /\ e.bad_day = None => (e.serp = "none" /\ e.scraper = "flights")
                    /\ ~e.enabled => e.serp = "none"
                    /\ (~e.enabled /\ e.bad_day # None) => e.scraper # "flights"}
    /\ RangeIdle

RangeError(message, type) == [kind |-> "error", message |-> message, type |-> type]

RateLimitError(paginated_pairs, total) ==
    [kind |-> "error", message |-> "Too many date combinations", type |-> "RateLimitError",
     requested_combinations |-> Len(paginated_pairs),
     maximum_allowed |-> MAX_DATE_COMBINATIONS,
     total_combinations_available |-> total]

\* The tool from its entry up to the for loop: parse the dates, enumerate the
\* pairs, paginate, enforce the ceiling.
RangeStart ==
    /\ UNCHANGED <<avars, svars, pvars, tvars>>
    /\ rpc = "call"
    /\ UNCHANGED <<rreq, renv, count, results_data, error_messages, rcalls>>
    /\ IF ~DateOk(rreq.start_date_str) \/ ~DateOk(rreq.end_date_str)
       THEN /\ routput' = RangeError("Invalid date format. Use YYYY-MM-DD.", "ValueError")
            /\ rpc' = "done"
            /\ UNCHANGED <<date_pairs_to_check, total_date_pairs>>
       ELSE IF strptime(rreq.start_date_str) > strptime(rreq.end_date_str)
       THEN /\ routput' = RangeError("Start date cannot be after end date.", "ValueError")
            /\ rpc' = "done"
            /\ UNCHANGED <<date_pairs_to_check, total_date_pairs>>
       ELSE LET all_pairs == EnumeratePairs(strptime(rreq.start_date_str),
                                            strptime(rreq.end_date_str),
                                            rreq.min_stay_days, rreq.max_stay_days)
                paginated_pairs == PaginatedPairs(all_pairs, rreq.offset, rreq.limit)
            IN  /\ total_date_pairs' = Len(all_pairs)
                /\ IF TooManyCombinations(paginated_pairs)
                   THEN /\ routput' = RateLimitError(paginated_pairs, Len(all_pairs))
                        /\ rpc' = "done"
                        /\ UNCHANGED date_pairs_to_check
                   ELSE /\ date_pairs_to_check' = paginated_pairs
                        /\ rpc' = "loop"
                        /\ UNCHANGED routput

\* One date pair: SerpApi first when enabled, fast-flights when that gave no
\* result object; what the body of the loop leaves behind.
RangePairQuery(pair) ==
    LET bad == renv.bad_day # None /\ pair[1] = renv.bad_day
        serpapi_result == SerpAnswer(IF bad THEN renv.serp ELSE "flights")
        flights_data == IF renv.enabled /\ SerpTruthy(serpapi_result)
                        THEN convert_serpapi_response(serpapi_result) ELSE <<>>
        serp_ok == Len(flights_data) > 0
        sc == IF bad THEN renv.scraper ELSE "flights"
    IN  [calls |-> (IF renv.enabled THEN << [source |-> "SerpApi", depart |-> pair[1], ret |-> pair[2]] >> ELSE <<>>)
                   \o (IF serp_ok THEN <<>> ELSE << [source |-> "fast-flights", depart |-> pair[1], ret |-> pair[2],
                          trip |-> "round-trip", fetch_mode |-> "common"] >>),
         source |-> IF serp_ok THEN "SerpApi" ELSE "fast-flights",
         outcome |-> IF serp_ok THEN "flights" ELSE sc,
         flights |-> IF serp_ok THEN flights_data
                     ELSE IF sc = "flights"
                          THEN [i \in 1..Len(SampleScraperFlights) |->
                                   flight_to_dict(SampleScraperFlights[i])]
                          ELSE <<>>,
         cheapest |-> IF serp_ok THEN << CheapestOf(flights_data) >>
                      ELSE IF sc = "flights"
                           THEN << flight_to_dict(CheapestOf(SampleScraperFlights)) >>
                           ELSE <<>>]

RangeResultEntry(pair, q) ==
    IF rreq.return_cheapest_only
    THEN [departure_date |-> pair[1], return_date |-> pair[2], key |-> "cheapest_flight",
          flights |-> q.cheapest, source |-> q.source]
    ELSE [departure_date |-> pair[1], return_date |-> pair[2], key |-> "flights",
          flights |-> q.flights, source |-> q.source]

\* The message of the latest failure replacing the list.
NoteError_Overwrite(messages, err_msg) == << err_msg >>

\* if err_msg not in error_messages: error_messages.append(err_msg)
NoteError(messages, err_msg) ==
    IF \E i \in 1..Len(messages) : messages[i] = err_msg
    THEN messages ELSE Append(messages, err_msg)

\* One iteration of the for loop over date_pairs_to_check.
RangeProcessPair ==
    /\ UNCHANGED <<avars, svars, pvars, tvars>>
    /\ rpc = "loop"
    /\ count < Len(date_pairs_to_check)
    /\ LET pair == date_pairs_to_check[count + 1]
           q == RangePairQuery(pair)
       IN  /\ rcalls' = rcalls \o q.calls
           /\ results_data' = IF q.outcome = "flights"
                              THEN Append(results_data, RangeResultEntry(pair, q))
                              ELSE results_data
           /\ error_messages' = IF q.outcome \in {"RuntimeError", "Exception"}
                                THEN NoteError(error_messages,
                                               [depart |-> pair[1], ret |-> pair[2],
                                                type |-> q.outcome])
                                ELSE error_messages
    /\ count' = count + 1
    /\ UNCHANGED <<rpc, rreq, renv, date_pairs_to_check, total_date_pairs, routput>>

\* After the loop: the response.
RangeFinish ==
    /\ UNCHANGED <<avars, svars, pvars, tvars>>
    /\ rpc = "loop"
    /\ count = Len(date_pairs_to_check)
    /\ routput' =
         IF Len(results_data) > 0 \/ Len(error_messages) > 0
         THEN [kind |-> "results",
               results_key |-> IF rreq.return_cheapest_only
                               THEN "cheapest_option_per_date_pair"
                               ELSE "all_round_trip_options",
               results |-> results_data,
               errors_encountered |-> error_messages,
               pagination |-> [offset |-> rreq.offset, limit |-> rreq.limit,
                               returned |-> Len(results_data),
                               total_date_pairs |-> total_date_pairs,
                               has_more |-> rreq.offset + rreq.limit < total_date_pairs]]
         ELSE [kind |-> "message", message |-> "No flights found and no errors encountered"]
    /\ rpc' = "done"
    /\ UNCHANGED <<rreq, renv, date_pairs_to_check, total_date_pairs, count,
                   results_data, error_messages, rcalls>>

RangeNext == RangeStart \/ RangeProcessPair \/ RangeFinish

----------------------------------------------------------------------------
\* compare_nearby_airports (the server at the repository root).

\* float('inf') unless the price is a string that holds a number.
parse_price_str(price_str) ==
    IF price_str.t = "usd" THEN price_str.v ELSE Inf

\* flight_to_dict of that server: the attributes, as they are.
flight_to_dict_v1(flight) ==
    [is_best |-> flight.is_best, name |-> flight.name, stops |-> flight.stops,
     price |-> flight.price]

OriginCodes == <<"SFO", "OAK", "SJC", "SMF", "STS", "MRY">>

\* An airport-list argument: text that is no JSON, JSON that is no array, or
\* a JSON array of codes.
JsonInvalid == [json |-> "invalid", items |-> <<>>]
JsonObject == [json |-> "object", items |-> <<>>]
JsonList(codes) == [json |-> "list", items |-> codes]

AirportLists(codes) ==
    {JsonInvalid, JsonObject} \cup {JsonList(SubSeq(codes, 1, n)) : n \in 0..MaxAirports}

AirportRequests ==
    {[origin_airports |-> o, destination_airports |-> d, date |-> dt] :
        o \in AirportLists(OriginCodes), d \in AirportLists(<<"JFK", "EWR", "LGA", "PHL", "HPN", "ISP">>),
        dt \in {BadDate, DateStr(0)}}

\* fast-flights answers by the query: routes out of aenv.bad_origin get
\* aenv.kind, every other route gets flights.
AirportEnvs ==
    {[bad_origin |-> "", kind |-> "flights"]}
    \cup {[bad_origin |-> OriginCodes[i], kind |-> k] :
            i \in 1..2, k \in {"empty", "Exception"}}

AirportsIdle ==
    /\ comparisons = <<>>
    /\ acount = 0
    /\ acalls = <<>>
    /\ aoutput = [kind |-> "none"]

AirportsOff ==
    /\ apc = "off"
    /\ areq = [date |-> BadDate]
    /\ aenv = [kind |-> "flights"]
    /\ AirportsIdle

AirportsInit ==
    /\ apc = "call"
    /\ areq \in AirportRequests
    /\ aenv \in AirportEnvs
    /\ AirportsIdle

\* The tool from its entry up to the nested for loops: the validations.
AirportsStart ==
    /\ UNCHANGED <<rvars, svars, pvars, tvars>>
    /\ apc = "call"
    /\ UNCHANGED <<areq, aenv, comparisons, acount, acalls>>
    /\ LET origins == areq.origin_airports
           destinations == areq.destination_airports
           reject(message, type) ==
               /\ aoutput' = [kind |-> "error", message |-> message, type |-> type]
               /\ apc' = "done"
       IN  IF origins.json = "invalid" \/ destinations.json = "invalid"
           THEN reject("Invalid JSON in airport lists", "JSONDecodeError")
           ELSE IF origins.json # "list" \/ destinations.json # "list"
           THEN reject("Airport parameters must be JSON arrays", "ValueError")
           ELSE IF origins.items = <<>> \/ destinations.items = <<>>
           THEN reject("Airport lists cannot be empty", "ValueError")
           ELSE IF ~DateOk(areq.date)
           THEN reject("Invalid date format. Use YYYY-MM-DD.", "ValueError")
           ELSE /\ apc' = "loop"
                /\ UNCHANGED aoutput

total_combinations == Len(areq.origin_airports.items) * Len(areq.destination_airports.items)

\* The route the nested loops reach after k finished iterations.
RouteAt(k) ==
    LET nd == Len(areq.destination_airports.items)
    IN  [origin |-> areq.origin_airports.items[(k \div nd) + 1],
         destination |-> areq.destination_airports.items[(k % nd) + 1]]

\* What get_flights returns for a route: the flights, or the way it failed.
RouteFlights(route) ==
    LET h == (Len(route.origin) + 2 * Len(route.destination)) % 3
    IN  << Flight(TextPrice, "AA", 1),
           Flight(UsdPrice(300 - 50 * h), "UA", 0),
           Flight(UsdPrice(300 - 50 * h), "DL", 2) >>

ComparisonOf(route) ==
    LET answer == IF route.origin = aenv.bad_origin THEN aenv.kind ELSE "flights"
        flights == RouteFlights(route)
        cheapest == flights[PyMinIndex([i \in 1..Len(flights) |->
                                          parse_price_str(flights[i].price)])]
    IN  IF answer = "flights"
        THEN [origin |-> route.origin, destination |-> route.destination,
              has |-> "price", price |-> cheapest.price,
              price_numeric |-> parse_price_str(cheapest.price),
              cheapest_flight |-> flight_to_dict_v1(cheapest),
              total_options |-> Len(flights)]
        ELSE IF answer = "empty"
        THEN [origin |-> route.origin, destination |-> route.destination,
              has |-> "message", price |-> NonePrice, price_numeric |-> 0,
              message |-> "No flights found"]
        ELSE [origin |-> route.origin, destination |-> route.destination,
              has |-> "error", price |-> NonePrice, price_numeric |-> 0,
              error |-> "Exception"]

\* One iteration of the inner for loop.
AirportsCheckRoute ==
    /\ UNCHANGED <<rvars, svars, pvars, tvars>>
    /\ apc = "loop"
    /\ acount < total_combinations
    /\ LET route == RouteAt(acount)
       IN  /\ acalls' = Append(acalls, [origin |-> route.origin,
                                        destination |-> route.destination,
                                        date |-> strptime(areq.date),
                                        trip |-> "one-way"])
           /\ comparisons' = Append(comparisons, ComparisonOf(route))
    /\ acount' = acount + 1
    /\ UNCHANGED <<apc, areq, aenv, aoutput>>

\* c.get("price_numeric") and c["price_numeric"] != float('inf')
ValidComparison(c) == c.has = "price" /\ c.price_numeric # 0 /\ c.price_numeric # Inf

\* list.sort(key=...): stable, ascending.
RECURSIVE SortInsert(_, _)
SortInsert(sorted, c) ==
    IF sorted = <<>> THEN <<c>>
    ELSE IF sorted[Len(sorted)].price_numeric <= c.price_numeric
    THEN Append(sorted, c)
    ELSE Append(SortInsert(SubSeq(sorted, 1, Len(sorted) - 1), c), sorted[Len(sorted)])

RECURSIVE SortByPrice(_)
SortByPrice(cs) ==
    IF cs = <<>> THEN <<>>
    ELSE SortInsert(SortByPrice(SubSeq(cs, 1, Len(cs) - 1)), cs[Len(cs)])

\* After the loops: sort and answer.
AirportsFinish ==
    /\ UNCHANGED <<rvars, svars, pvars, tvars>>
    /\ apc = "loop"
    /\ acount = total_combinations
    /\ LET valid_comparisons == SortByPrice(SelectSeq(comparisons, ValidComparison))
           invalid_comparisons == SelectSeq(comparisons, LAMBDA c : ~ValidComparison(c))
       IN  aoutput' = [kind |-> "results",
                       total_combinations_checked |-> total_combinations,
                       valid_routes_found |-> Len(valid_comparisons),
                       comparisons |-> valid_comparisons \o invalid_comparisons,
                       best_deal |-> IF valid_comparisons # <<>>
                                     THEN << valid_comparisons[1] >> ELSE <<>>]
    /\ apc' = "done"
    /\ UNCHANGED <<areq, aenv, comparisons, acount, acalls>>

AirportsNext == AirportsStart \/ AirportsCheckRoute \/ AirportsFinish

----------------------------------------------------------------------------
\* The single-query search tools: what goes in and what comes out.

\* The text of an exception, as far as the handlers look into it.
MsgNoFlights == "No flights found"
MsgNoFlightsUrl == "No flights found. See https://www.google.com/travel/flights?tfs=x"
MsgTimeout == "Timed out waiting for results"
MsgBlockedUrl == "Blocked. See https://www.google.com/travel/flights?tfs=x"

\* "No flights found" in error_msg
HasNoFlightsFound(error_msg) == error_msg \in {MsgNoFlights, MsgNoFlightsUrl}

\* What fast-flights' get_flights does with a query.
ScraperFlights(n) == [kind |-> "flights", n |-> n, type |-> "", msg |-> ""]
ScraperEmpty == [kind |-> "empty", n |-> 0, type |-> "", msg |-> ""]
ScraperRaises(type, msg) == [kind |-> "raise", n |-> 0, type |-> type, msg |-> msg]
ScraperOutcomes ==
    {ScraperFlights(n) : n \in 1..MaxFlights} \cup {ScraperEmpty}
    \cup {ScraperRaises(t, m) :
             t \in {"RuntimeError", "ValueError", "IndexError", "TypeError"},
             m \in {MsgNoFlights, MsgNoFlightsUrl, MsgTimeout, MsgBlockedUrl}}

\* The i-th flight fast-flights returns.
ScrapedFlight(i) ==
    Flight(IF i % 3 = 0 THEN TextPrice ELSE UsdPrice(400 - 70 * (i % 4)),
           IF i % 2 = 0 THEN "United" ELSE "Delta", i % 3)
ScrapedFlights(n) == [i \in 1..n |-> ScrapedFlight(i)]

\* What SerpApi does with a query: the request fails (get_flights_from_serpapi
\* returns None), or a response with n flights, the first under best_flights.
SerpFails == [kind |-> "fails", n |-> 0]
SerpReturns(n) == [kind |-> "answers", n |-> n]


\* A response of three flights of one price, the third without a token.
SerpReturnsTied == [kind |-> "tied", n |-> 3]

\* The i-th flight SerpApi lists: 400, 300, 500, 450, 350, ...; its
\* departure_token is its own, and every third flight has none.
SerpFlight(i) ==
    RawFlight(IntPrice(500 - 100 * (i % 3) + 50 * (i \div 4)), 1 + (i % 2),
              IF i % 3 = 0 THEN ""
              ELSE <<"tok1", "tok2", "tok3", "tok4", "tok5", "tok6", "tok7", "tok8">>[i])
SerpResult(serp) ==
    LET flight(i) == IF serp.kind = "unpriced" /\ i = 2
                     THEN [SerpFlight(i) EXCEPT !.price = NonePrice]
                     ELSE IF serp.kind = "tied"
                     THEN [SerpFlight(i) EXCEPT !.price = IntPrice(400)]
                     ELSE SerpFlight(i)
    IN  IF serp.kind = "fails" THEN NoSerpResult
        ELSE [none |-> FALSE,
              best_flights |-> [i \in 1..Min(serp.n, 1) |-> flight(i)],
              other_flights |-> [i \in 1..(serp.n - Min(serp.n, 1)) |-> flight(i + 1)]]

\* serp: the search; returns: the return flights of a departure_token;
\* scraper: the search; segment: the one-way search of each leg of a split
\* multi-city trip.
SearchEnvs ==
    {[enabled |-> en, serp |-> se, returns |-> rt, scraper |-> sc, segment |-> sg,
      prices |-> pf] :
        en \in BOOLEAN,
        se \in {SerpFails, SerpReturnsTied} \cup {SerpReturns(n) : n \in 0..MaxFlights},
        rt \in {SerpFails, SerpReturns(0), SerpReturns(2),
                \* a response whose second flight has no "price" key
                [kind |-> "unpriced", n |-> 2]},
        sc \in ScraperOutcomes,
        sg \in [1..MaxSegments -> {ScraperFlights(1), ScraperEmpty,
                                   ScraperRaises("RuntimeError", MsgTimeout)}],
        pf \in {"str", "int"}}

\* A source call: who is asked, for which trip, and how.
SearchCall(source, trip, fetch_mode, max_stops, stops) ==
    [source |-> source, trip |-> trip, fetch_mode |-> fetch_mode,
     max_stops |-> max_stops, stops |-> stops]

\* The stops parameter get_flights_from_serpapi sends (None: not sent).
SerpStops(max_stops) == IF max_stops # None THEN max_stops + 1 ELSE None

\* The text of an error as the response carries it: the exception's text
\* with what the handler puts in front of it.
ErrText(prefix, text) == [prefix |-> prefix, text |-> text]

NoResponse ==
    [kind |-> "none", result_key |-> "", flights |-> <<>>, source |-> "",
     has_booking_url |-> FALSE, message |-> "", error |-> ErrText("", ""),
     type |-> "", google_flights_url |-> "", serpapi_note |-> ""]

\* A result set, under result_key; source is "" when the response has no
\* "source" key.
ResultsResponse(result_key, flights, source) ==
    [NoResponse EXCEPT !.kind = "results", !.result_key = result_key,
                       !.flights = flights, !.source = source, !.has_booking_url = TRUE]

\* {"message": ...}: nothing found; url and note are "" when the key is absent.
MessageResponse(message, url, note) ==
    [NoResponse EXCEPT !.kind = "message", !.message = message,
                       !.google_flights_url = url, !.serpapi_note = note]

\* {"error": {"message": ..., "type": ...}, ...}
ErrorResponse(error, type, url, note) ==
    [NoResponse EXCEPT !.kind = "error", !.error = error, !.type = type,
                       !.google_flights_url = url, !.serpapi_note = note]


\* The URL of a handler: the one found in the exception's text, else the
\* one it built itself ("" when it builds none).
UrlBuilt == "built from the query"
\* ("https://www.google.com/travel/flights" in error_msg)
HandlerUrl(error_msg, built) ==
    IF error_msg \in {MsgNoFlightsUrl, MsgBlockedUrl} THEN "taken from the error text" ELSE built

\* flights[:max_results] if max_results > 0 else flights
Truncate(flights, max_results) ==
    IF max_results > 0 THEN PySlice(flights, 0, max_results) ELSE flights

SearchIdle ==
    /\ scalls = <<>>
    /\ sresponse = NoResponse

SearchOff ==
    /\ spc = "off"
    /\ sreq = [tool |-> "none"]
    /\ senv = [enabled |-> FALSE]
    /\ SearchIdle

\* An optional date argument that was not given.
NoDate == [ok |-> FALSE, day |-> None]

SearchRequest(tool, date, is_round_trip, return_date, max_stops, airlines, segments, cheapest, max_results) ==
    [tool |-> tool, date |-> date, is_round_trip |-> is_round_trip,
     return_date |-> return_date, max_stops |-> max_stops, airlines |-> airlines,
     flight_segments |-> segments, return_cheapest_only |-> cheapest,
     max_results |-> max_results]

DateChoices == {BadDate, DateStr(0)}
MaxStopsChoices == {0, 1, 2, 3, 5}
MaxResultsChoices == {0, 2, 10}

\* get_flights_from_serpapi, then convert_serpapi_response: the call made
\* (none when SerpApi is not configured) and the flights it yields.
\* get_flights_from_serpapi asked a second time after the first attempt.
SerpApiFirst_Retry(trip, max_stops) ==
    IF ~senv.enabled THEN [calls |-> <<>>, result |-> NoSerpResult, flights |-> <<>>]
    ELSE LET serpapi_result == SerpResult(senv.serp)
             call == SearchCall("SerpApi", trip, "", max_stops, SerpStops(max_stops))
         IN  [calls |-> IF SerpTruthy(serpapi_result) THEN << call >> ELSE << call, call >>,
              result |-> serpapi_result,
              flights |-> IF SerpTruthy(serpapi_result)
                          THEN convert_serpapi_response(serpapi_result) ELSE <<>>]

SerpApiFirst(trip, max_stops) ==
    IF ~senv.enabled THEN [calls |-> <<>>, result |-> NoSerpResult, flights |-> <<>>]
    ELSE LET serpapi_result == SerpResult(senv.serp)
         IN  [calls |-> << SearchCall("SerpApi", trip, "", max_stops, SerpStops(max_stops)) >>,
              result |-> serpapi_result,
              flights |-> IF SerpTruthy(serpapi_result)
                          THEN convert_serpapi_response(serpapi_result) ELSE <<>>]

\* if serpapi_result: ... if flights_data: the SerpApi answer is the tool's
\* answer; otherwise fast-flights is asked.
SerpApiAnswered_EvenIfEmpty(serp) == SerpTruthy(serp.result)

SerpApiAnswered(serp) == SerpTruthy(serp.result) /\ serp.flights # <<>>

\* The flights of a SerpApi answer that go into the response.
SerpProcessed(flights_data) ==
    IF sreq.return_cheapest_only /\ Len(flights_data) > 0
    THEN << CheapestOf(flights_data) >>
    ELSE Truncate(flights_data, sreq.max_results)

\* The flights of a fast-flights answer that go into the response.
ScraperProcessed(flights) ==
    IF sreq.return_cheapest_only
    THEN << flight_to_dict(CheapestOf(flights)) >>
    ELSE LET flights_to_process == Truncate(flights, sreq.max_results)
         IN  [i \in 1..Len(flights_to_process) |-> flight_to_dict(flights_to_process[i])]

ResultKey(one, many) == IF sreq.return_cheapest_only THEN one ELSE many

SerpApiNote ==
    IF ~senv.enabled THEN "Configure SERPAPI_API_KEY to enable SerpApi"
    ELSE "SerpApi was attempted first"

InvalidDate == ErrorResponse(ErrText("", "Invalid date format. Use YYYY-MM-DD."),
                             "ValueError", "", "")
OneWayInvalidDate == ErrorResponse(ErrText("", "Invalid date format. Please use YYYY-MM-DD."),
                                   "ValueError", "", "")

\* The tool has returned: its source calls and its response.
SearchReturns(calls, response) ==
    /\ scalls' = calls
    /\ sresponse' = response
    /\ spc' = "done"
    /\ UNCHANGED <<sreq, senv>>

search_one_way_flights ==
    /\ UNCHANGED <<rvars, avars, pvars, tvars>>
    /\ spc = "call" /\ sreq.tool = "search_one_way_flights"
    /\ LET serp == SerpApiFirst("one-way", None)
           scraper_call == SearchCall("fast-flights", "one-way", "common", None, None)
           sc == senv.scraper
           url == HandlerUrl(sc.msg, UrlBuilt)
       IN  IF ~DateOk(sreq.date) THEN SearchReturns(<<>>, OneWayInvalidDate)
           ELSE IF SerpApiAnswered(serp)
           THEN SearchReturns(serp.calls,
                    ResultsResponse(ResultKey("cheapest_flight", "flights"),
                                    SerpProcessed(serp.flights), "SerpApi"))
           ELSE SearchReturns(serp.calls \o << scraper_call >>,
                    IF sc.kind = "flights"
                    THEN ResultsResponse(ResultKey("cheapest_flight", "flights"),
                                         ScraperProcessed(ScrapedFlights(sc.n)), "")
                    ELSE IF sc.kind = "empty"
                    THEN MessageResponse("No flights found", "", "")
                    ELSE IF sc.type = "ValueError" THEN OneWayInvalidDate
                    ELSE IF sc.type = "RuntimeError"
                    THEN IF HasNoFlightsFound(sc.msg)
                         THEN MessageResponse(
                                  IF senv.enabled
                                  THEN "Both SerpApi and fast-flights couldn't find flights"
                                  ELSE "The scraper couldn't find flights",
                                  url, SerpApiNote)
                         ELSE ErrorResponse(ErrText("", sc.msg), "RuntimeError", url, SerpApiNote)
                    ELSE ErrorResponse(ErrText("", sc.msg), sc.type, url,
                                       IF ~senv.enabled THEN SerpApiNote ELSE ""))

\* combine_outbound_and_return_flights: a '$'-string is turned into an int
\* (ValueError when it holds no number), None cannot be added (TypeError);
\* either exception gives the error dict of the handler.
combine_outbound_and_return_flights(outbound_flight, return_flight) ==
    LET outbound_price == outbound_flight.price
        return_price == return_flight.price
        all_segments == outbound_flight.segments \o return_flight.segments
    IN  IF {outbound_price.t, return_price.t} \subseteq {"int", "usd"}
        THEN [price |-> IntPrice(outbound_price.v + return_price.v),
              flight_type |-> "Round trip",
              stops |-> IF all_segments # <<>> THEN Len(all_segments) - 1 ELSE 0,
              segments |-> all_segments,
              outbound_details |-> outbound_flight,
              return_details |-> return_flight,
              source |-> "SerpApi (combined)",
              is_best_flight |-> outbound_flight.is_best_flight]
        ELSE [error |-> "Failed to combine flights",
              outbound |-> outbound_flight,
              return |-> return_flight]

\* The departure_token of the first raw flight whose price is the outbound's
\* ("" when no flight matches or the flight has no token).
TokenFor(serpapi_result, outbound) ==
    LET raw == serpapi_result.best_flights \o serpapi_result.other_flights
        hits == {i \in 1..Len(raw) : raw[i].price = outbound.price}
    IN  IF hits = {} THEN ""
        ELSE raw[CHOOSE i \in hits : \A j \in hits : i <= j].departure_token

\* The round trips of one outbound flight: the return flights its token
\* unlocks, the first two of them combined with it; and the call made.
ReturnsFor(serpapi_result, outbound) ==
    LET departure_token == TokenFor(serpapi_result, outbound)
        return_result == SerpResult(senv.returns)
        return_flights == IF SerpTruthy(return_result)
                          THEN convert_serpapi_response(return_result) ELSE <<>>
        firsts == PySlice(return_flights, 0, 2)
    IN  IF departure_token = "" THEN [calls |-> <<>>, roundtrips |-> <<>>]
        ELSE [calls |-> << SearchCall("SerpApi", "return-flights", "", None, None)
                           @@ [departure_token |-> departure_token] >>,
              roundtrips |-> [i \in 1..Len(firsts) |->
                                 combine_outbound_and_return_flights(outbound, firsts[i])]]

RECURSIVE CompleteRoundtrips(_, _)
CompleteRoundtrips(serpapi_result, outbound_to_process) ==
    IF outbound_to_process = <<>> THEN [calls |-> <<>>, roundtrips |-> <<>>]
    ELSE LET head == ReturnsFor(serpapi_result, Head(outbound_to_process))
             tail == CompleteRoundtrips(serpapi_result, Tail(outbound_to_process))
         IN  [calls |-> head.calls \o tail.calls,
              roundtrips |-> head.roundtrips \o tail.roundtrips]

\* Every outbound flight processed, however many there are.
outbound_to_process_All(outbound_flights) == outbound_flights

\* outbound_flights[:min(3, len(outbound_flights))]
outbound_to_process(outbound_flights) ==
    PySlice(outbound_flights, 0, Min(3, Len(outbound_flights)))

search_round_trip_flights ==
    /\ UNCHANGED <<rvars, avars, pvars, tvars>>
    /\ spc = "call" /\ sreq.tool = "search_round_trip_flights"
    /\ LET serp == SerpApiFirst("round-trip", sreq.max_stops)
           outbound_flights == serp.flights
           complete == CompleteRoundtrips(serp.result, outbound_to_process(outbound_flights))
           flights == IF complete.roundtrips # <<>> THEN complete.roundtrips
                      ELSE outbound_flights
           scraper_call == SearchCall("fast-flights", "round-trip", "common",
                                      sreq.max_stops, None)
           sc == senv.scraper
           url == HandlerUrl(sc.msg, UrlBuilt)
           key == ResultKey("cheapest_round_trip_option", "round_trip_options")
       IN  IF ~DateOk(sreq.date) \/ ~DateOk(sreq.return_date)
           THEN SearchReturns(<<>>, InvalidDate)
           ELSE IF SerpApiAnswered(serp)
           THEN SearchReturns(serp.calls \o complete.calls,
                              ResultsResponse(key, SerpProcessed(flights), "SerpApi"))
           ELSE SearchReturns(serp.calls \o << scraper_call >>,
                    IF sc.kind = "flights"
                    THEN ResultsResponse(key, ScraperProcessed(ScrapedFlights(sc.n)), "")
                    ELSE IF sc.kind = "empty"
                    THEN MessageResponse("No round trip flights found", "", "")
                    ELSE IF sc.type = "ValueError" THEN InvalidDate
                    ELSE IF sc.type = "RuntimeError" /\ HasNoFlightsFound(sc.msg)
                    THEN MessageResponse(
                             IF senv.enabled
                             THEN "Both SerpApi and fast-flights couldn't find flights"
                             ELSE "The scraper couldn't find flights",
                             url, SerpApiNote)
                    ELSE ErrorResponse(ErrText("", sc.msg), sc.type, url, SerpApiNote))

ReturnDateRequired ==
    ErrorResponse(ErrText("", "return_date is required when is_round_trip=True"),
                  "ValueError", "", "")

\* The handlers search_direct_flights and search_flights_with_max_stops share:
\* they build no URL of their own.
ScraperOnlyFailure(sc, not_found) ==
    LET url == HandlerUrl(sc.msg, "")
    IN  IF sc.type = "ValueError" THEN InvalidDate
        ELSE IF sc.type = "RuntimeError"
        THEN IF HasNoFlightsFound(sc.msg)
             THEN MessageResponse(not_found, url, "")
             ELSE ErrorResponse(ErrText("", sc.msg), "RuntimeError", "", "")
        ELSE ErrorResponse(ErrText("", sc.msg), sc.type, url, "")

TripType == IF sreq.is_round_trip THEN "round-trip" ELSE "one-way"

\* FlightData(date=..., from_airport=..., to_airport=...)
FlightData(date, from_airport, to_airport) ==
    [date |-> date, from_airport |-> from_airport, to_airport |-> to_airport]

\* A round trip built from two one-way queries, one per direction.
DirectCalls_TwoOneWay ==
    LET call(leg) == SearchCall("fast-flights", "one-way", "common", 0, None)
                     @@ [flight_data |-> << leg >>]
    IN  << call(FlightData(sreq.date, "origin", "destination")) >>
        \o (IF sreq.is_round_trip
            THEN << call(FlightData(sreq.return_date, "destination", "origin")) >>
            ELSE <<>>)

\* The get_flights calls of search_direct_flights: one, with both legs for a
\* round trip, and max_stops=0.
DirectCalls ==
    LET flight_data == << FlightData(sreq.date, "origin", "destination") >>
                       \o (IF sreq.is_round_trip
                           THEN << FlightData(sreq.return_date, "destination", "origin") >>
                           ELSE <<>>)
    IN  << SearchCall("fast-flights", TripType, "common", 0, None)
           @@ [flight_data |-> flight_data] >>

search_direct_flights ==
    /\ UNCHANGED <<rvars, avars, pvars, tvars>>
    /\ spc = "call" /\ sreq.tool = "search_direct_flights"
    /\ LET sc == senv.scraper
       IN  IF ~DateOk(sreq.date) THEN SearchReturns(<<>>, InvalidDate)
           ELSE IF sreq.is_round_trip /\ sreq.return_date = NoDate
           THEN SearchReturns(<<>>, ReturnDateRequired)
           ELSE IF sreq.is_round_trip /\ ~DateOk(sreq.return_date)
           THEN SearchReturns(<<>>, InvalidDate)
           ELSE SearchReturns(DirectCalls,
                    IF sc.kind = "flights"
                    THEN ResultsResponse(ResultKey("cheapest_direct_flight", "direct_flights"),
                                         ScraperProcessed(ScrapedFlights(sc.n)), "")
                    ELSE IF sc.kind = "empty"
                    THEN MessageResponse("No direct flights found", "", "")
                    ELSE ScraperOnlyFailure(sc, "The scraper couldn't find direct flights"))

search_flights_with_max_stops ==
    /\ UNCHANGED <<rvars, avars, pvars, tvars>>
    /\ spc = "call" /\ sreq.tool = "search_flights_with_max_stops"
    /\ LET scraper_call == SearchCall("fast-flights", TripType, "common",
                                      sreq.max_stops, None)
           sc == senv.scraper
       IN  IF sreq.max_stops \notin {0, 1, 2}
           THEN SearchReturns(<<>>, ErrorResponse(ErrText("", "max_stops must be 0, 1, or 2"),
                                                  "ValueError", "", ""))
           ELSE IF ~DateOk(sreq.date) THEN SearchReturns(<<>>, InvalidDate)
           ELSE IF sreq.is_round_trip /\ sreq.return_date = NoDate
           THEN SearchReturns(<<>>, ReturnDateRequired)
           ELSE IF sreq.is_round_trip /\ ~DateOk(sreq.return_date)
           THEN SearchReturns(<<>>, InvalidDate)
           ELSE SearchReturns(<< scraper_call >>,
                    IF sc.kind = "flights"
                    THEN ResultsResponse(ResultKey("cheapest_flight_with_max_stops",
                                                   "flights_with_max_stops"),
                                         ScraperProcessed(ScrapedFlights(sc.n)), "")
                    ELSE IF sc.kind = "empty"
                    THEN MessageResponse("No flights found with max stops", "", "")
                    ELSE ScraperOnlyFailure(sc,
                             "The scraper couldn't find flights with the specified stop criteria"))

\* The airlines argument: a JSON array, or text that is no JSON and is taken
\* as one airline.
AirlinesText(text) == [json |-> "invalid", items |-> << text >>]

\* get_airline_names_for_code
get_airline_names_for_code(code) ==
    IF code = "UA" THEN {"United"} ELSE IF code = "DL" THEN {"Delta"} ELSE {}

\* The names a flight's airline is matched against.
TargetAirlineNames(airlines_list) ==
    UNION {{airlines_list[i]} \cup get_airline_names_for_code(airlines_list[i]) :
             i \in 1..Len(airlines_list)}

search_flights_by_airline ==
    /\ UNCHANGED <<rvars, avars, pvars, tvars>>
    /\ spc = "call" /\ sreq.tool = "search_flights_by_airline"
    /\ LET airlines_list == sreq.airlines.items
           serp == SerpApiFirst(TripType, sreq.max_stops)
           scraper_call == SearchCall("fast-flights", TripType, "common",
                                      sreq.max_stops, None)
           sc == senv.scraper
           targets == TargetAirlineNames(airlines_list)
           filtered_flights == SelectSeq(ScrapedFlights(sc.n),
                                         LAMBDA f : f.name = "" \/ f.name \in targets)
           key == ResultKey("cheapest_flight_by_airline", "flights_by_airline")
           not_found == "No flights found for specified airlines"
       IN  IF airlines_list = <<>>
           THEN SearchReturns(<<>>, ErrorResponse(ErrText("", "airlines parameter cannot be empty"),
                                                  "ValueError", "", ""))
           ELSE IF ~DateOk(sreq.date) THEN SearchReturns(<<>>, InvalidDate)
           ELSE IF sreq.is_round_trip /\ sreq.return_date = NoDate
           THEN SearchReturns(<<>>, ReturnDateRequired)
           ELSE IF sreq.is_round_trip /\ ~DateOk(sreq.return_date)
           THEN SearchReturns(<<>>, InvalidDate)
           ELSE IF SerpApiAnswered(serp)
           THEN SearchReturns(serp.calls,
                              ResultsResponse(key, SerpProcessed(serp.flights), "SerpApi"))
           ELSE SearchReturns(serp.calls \o << scraper_call >>,
                    IF sc.kind = "flights" /\ filtered_flights # <<>>
                    THEN ResultsResponse(key, ScraperProcessed(filtered_flights), "")
                    ELSE IF sc.kind \in {"flights", "empty"}
                    THEN MessageResponse(not_found, "", "")
                    ELSE IF sc.type = "ValueError" THEN InvalidDate
                    ELSE IF sc.type = "RuntimeError"
                    THEN IF HasNoFlightsFound(sc.msg)
                         THEN MessageResponse(
                                  IF senv.enabled
                                  THEN "Both SerpApi and fast-flights couldn't find flights"
                                  ELSE "The scraper couldn't find flights",
                                  HandlerUrl(sc.msg, UrlBuilt), SerpApiNote)
                         ELSE ErrorResponse(ErrText("", sc.msg), "RuntimeError",
                                            HandlerUrl(sc.msg, UrlBuilt), SerpApiNote)
                    ELSE ErrorResponse(ErrText(sc.type, sc.msg), sc.type,
                                       HandlerUrl(sc.msg, ""), ""))

\* One element of the flight_segments array: its date (NoDate when the key
\* is absent) and whether it has its "from" and "to" keys.
Segment(date, has_from, has_to) == [date |-> date, has_from |-> has_from, has_to |-> has_to]
GoodSegment == Segment(DateStr(0), TRUE, TRUE)

SegmentLists ==
    {JsonList([i \in 1..n |-> GoodSegment]) : n \in 0..MaxSegments}
    \cup
    {JsonInvalid, JsonObject,
     JsonList(<< GoodSegment, Segment(BadDate, TRUE, TRUE) >>),
     JsonList(<< GoodSegment, Segment(NoDate, TRUE, TRUE) >>),
     JsonList(<< Segment(DateStr(0), TRUE, FALSE), GoodSegment >>),
     JsonList(<< Segment(DateStr(0), FALSE, TRUE), GoodSegment >>),
     JsonList(<< GoodSegment, Segment(DateStr(0), TRUE, FALSE) >>)}

\* The first verdict of the validation loop over the segments, "" when all
\* of them pass.
RECURSIVE SegmentsVerdict(_)
SegmentsVerdict(segments) ==
    IF segments = <<>> THEN ""
    ELSE LET segment == Head(segments)
         IN  IF segment.date = NoDate \/ ~segment.has_from \/ ~segment.has_to
             THEN "missing required fields (date, from, to)"
             ELSE IF ~DateOk(segment.date) THEN "Invalid date format in segment"
             ELSE SegmentsVerdict(Tail(segments))

\* The (IndexError, RuntimeError) handler: every leg searched on its own,
\* one way; senv.segment[i] is how fast-flights answers the search of leg i.
SegmentResult(i) ==
    LET sg == senv.segment[i]
    IN  IF sg.kind = "flights"
        THEN [segment_number |-> i, has |-> "flights",
              flights |-> ScraperProcessed(ScrapedFlights(sg.n)), error |-> ""]
        ELSE IF sg.kind = "empty"
        THEN [segment_number |-> i, has |-> "message", flights |-> <<>>, error |-> ""]
        ELSE [segment_number |-> i, has |-> "error", flights |-> <<>>, error |-> sg.msg]

\* all_segments_successful, with only a segment's exception clearing it.
all_segments_successful_ErrorsOnly(segment_results) ==
    \A i \in 1..Len(segment_results) : segment_results[i].has # "error"

\* all_segments_successful after the loop: cleared by a segment without
\* flights and by a segment whose search raised.
all_segments_successful(segment_results) ==
    \A i \in 1..Len(segment_results) : segment_results[i].has = "flights"

get_multi_city_flights ==
    /\ UNCHANGED <<rvars, avars, pvars, tvars>>
    /\ spc = "call" /\ sreq.tool = "get_multi_city_flights"
    /\ LET segments == sreq.flight_segments.items
           serp == SerpApiFirst("multi-city", None)
           scraper_call == SearchCall("fast-flights", "multi-city", "common", None, None)
           segment_call(i) == SearchCall("fast-flights", "one-way", "common", None, None)
                                  @@ [segment_number |-> i]
           sc == senv.scraper
           key == ResultKey("cheapest_multi_city_option", "multi_city_options")
           reject(text, type) ==
               SearchReturns(<<>>, ErrorResponse(ErrText("", text), type, "", ""))
           segment_results == [i \in 1..Len(segments) |-> SegmentResult(i)]
           \* "warning" is a key only when not all_segments_successful
           response_data ==
               [MessageResponse("Multi-city search was split into individual one-way segments",
                                UrlBuilt, "")
                   EXCEPT !.flights = segment_results]
       IN  IF sreq.flight_segments.json = "invalid"
           THEN reject("Invalid JSON in flight_segments", "JSONDecodeError")
           ELSE IF sreq.flight_segments.json # "list" \/ segments = <<>>
           THEN reject("flight_segments must be a non-empty JSON array", "ValueError")
           ELSE IF Len(segments) < 2
           THEN reject("Multi-city trips require at least 2 flight segments", "ValueError")
           ELSE IF (\E i \in 1..Len(segments) : ~segments[i].has_from)
                   \/ ~segments[Len(segments)].has_to
           THEN reject("'from'", "KeyError")
           ELSE IF SegmentsVerdict(segments) # ""
           THEN reject(SegmentsVerdict(segments), "ValueError")
           ELSE IF SerpApiAnswered(serp)
           THEN SearchReturns(serp.calls,
                              ResultsResponse(key, SerpProcessed(serp.flights), "SerpApi"))
           ELSE IF sc.kind = "raise" /\ sc.type \in {"IndexError", "RuntimeError"}
           THEN SearchReturns(serp.calls \o << scraper_call >>
                                  \o [i \in 1..Len(segments) |-> segment_call(i)],
                    IF ~all_segments_successful(segment_results)
                    THEN response_data
                         @@ [warning |-> "Some segments could not be retrieved"]
                    ELSE response_data)
           ELSE SearchReturns(serp.calls \o << scraper_call >>,
                    IF sc.kind = "flights"
                    THEN ResultsResponse(key, ScraperProcessed(ScrapedFlights(sc.n)), "")
                    ELSE IF sc.kind = "empty"
                    THEN MessageResponse("No multi-city flights found for the specified route.",
                                         "", "")
                    ELSE ErrorResponse(ErrText("", sc.msg), sc.type, UrlBuilt, ""))

\* SerpAPIClient.search_flights sends max_stops as it is.
ClientStops(max_stops) == max_stops

\* fastflights_search: its first statement imports create_booking_url from
\* the server module, which does not define it.
fastflights_search ==
    [NoResponse EXCEPT !.kind = "raised", !.type = "ImportError",
                       !.error = ErrText("", "cannot import name 'create_booking_url'")]

\* SerpAPIClient.parse_flight_results
parse_flight_results(results) ==
    LET raw == results.best_flights \o results.other_flights
    IN  [i \in 1..Len(raw) |-> [price |-> raw[i].price, segments |-> raw[i].flights]]

hybrid_flight_search ==
    /\ UNCHANGED <<rvars, avars, pvars, tvars>>
    /\ spc = "call" /\ sreq.tool = "hybrid_flight_search"
    /\ LET serp_call == SearchCall("SerpApi", IF sreq.return_date # NoDate THEN "round-trip"
                                              ELSE "one-way",
                                   "", sreq.max_stops, ClientStops(sreq.max_stops))
           results == SerpResult(senv.serp)
       IN  IF senv.enabled /\ senv.serp.kind = "answers"
           THEN SearchReturns(<< serp_call >>,
                    [ResultsResponse("flights", parse_flight_results(results), "serpapi")
                        EXCEPT !.has_booking_url = FALSE])
           ELSE SearchReturns(IF senv.enabled THEN << serp_call >> ELSE <<>>,
                              fastflights_search)

\* get_flights_on_date (the server at the repository root): one fast-flights
\* query, no SerpApi, no limit; the flights arrive with the prices as strings
\* or as integers (senv.prices), and the cheapest is the minimum by that
\* server's parse_price.
get_flights_on_date ==
    /\ UNCHANGED <<rvars, avars, pvars, tvars>>
    /\ spc = "call" /\ sreq.tool = "get_flights_on_date"
    /\ LET sc == senv.scraper
           scraped == ScrapedFlights(sc.n)
           flights == [i \in 1..sc.n |->
                          IF senv.prices = "int" /\ scraped[i].price.t = "usd"
                          THEN [scraped[i] EXCEPT !.price = IntPrice(scraped[i].price.v)]
                          ELSE scraped[i]]
           cheapest_flight == flights[PyMinIndex([i \in 1..Len(flights) |->
                                                    parse_price_str(flights[i].price)])]
           processed_flights == IF sreq.return_cheapest_only
                                THEN << flight_to_dict_v1(cheapest_flight) >>
                                ELSE [i \in 1..Len(flights) |-> flight_to_dict_v1(flights[i])]
       IN  IF ~DateOk(sreq.date)
           THEN SearchReturns(<<>>, ErrorResponse(ErrText("Invalid date format: ",
                                                          "Please use YYYY-MM-DD."),
                                                  "ValueError", "", ""))
           ELSE SearchReturns(<< SearchCall("fast-flights", "one-way", "", None, None) >>,
                    IF sc.kind = "flights"
                    THEN [ResultsResponse(ResultKey("cheapest_flight", "flights"),
                                          processed_flights, "")
                          EXCEPT !.has_booking_url = FALSE]
                    ELSE IF sc.kind = "empty"
                    THEN MessageResponse("No flights found", "", "")
                    ELSE ErrorResponse(ErrText("", "An unexpected error occurred."),
                                       sc.type, "", ""))

SerpTools ==
    {"search_one_way_flights", "search_round_trip_flights", "get_multi_city_flights",
     "search_flights_by_airline", "hybrid_flight_search"}

SearchRequests ==
    {SearchRequest("search_one_way_flights", d, FALSE, NoDate, None, JsonList(<<>>),
                   JsonList(<<>>), ch, mr) :
        d \in DateChoices, ch \in BOOLEAN, mr \in MaxResultsChoices}
    \cup
    {SearchRequest("search_round_trip_flights", d[1], TRUE, d[2], ms, JsonList(<<>>),
                   JsonList(<<>>), ch, mr) :
        d \in {<<DateStr(0), DateStr(1)>>, <<BadDate, DateStr(1)>>, <<DateStr(0), BadDate>>},
        ms \in MaxStopsChoices, ch \in BOOLEAN, mr \in MaxResultsChoices}
    \cup
    {SearchRequest(t, d, rt, rd, IF t = "search_direct_flights" THEN 0 ELSE ms,
                   JsonList(<<>>), JsonList(<<>>), ch, 10) :
        t \in {"search_direct_flights", "search_flights_with_max_stops"},
        d \in DateChoices, rt \in BOOLEAN, rd \in {NoDate, BadDate, DateStr(1)},
        ms \in MaxStopsChoices, ch \in BOOLEAN}
    \cup
    {SearchRequest("search_flights_by_airline", d, rt, rd, ms, al, JsonList(<<>>), ch, 10) :
        d \in DateChoices, rt \in BOOLEAN, rd \in {NoDate, DateStr(1)},
        ms \in MaxStopsChoices,
        al \in {JsonList(<<>>), JsonList(<< "UA" >>), JsonList(<< "DL", "AA" >>),
                AirlinesText("AA"), AirlinesText("")},
        ch \in BOOLEAN}
    \cup
    {SearchRequest("get_multi_city_flights", DateStr(0), FALSE, NoDate, None,
                   JsonList(<<>>), sg, ch, mr) :
        sg \in SegmentLists, ch \in BOOLEAN, mr \in MaxResultsChoices}
    \cup
    {SearchRequest("hybrid_flight_search", d, rd # NoDate, rd, ms, JsonList(<<>>),
                   JsonList(<<>>), FALSE, 0) :
        d \in DateChoices, rd \in {NoDate, DateStr(1)}, ms \in {None} \cup MaxStopsChoices}
    \cup
    {SearchRequest("get_flights_on_date", d, FALSE, NoDate, None, JsonList(<<>>),
                   JsonList(<<>>), ch, 0) :
        d \in DateChoices, ch \in BOOLEAN}

\* The answers no call of the request asks for are left at one value.
SearchEnvFits(req, env) ==
    /\ env.serp # SerpFails => (env.enabled /\ req.tool \in SerpTools)
    /\ env.enabled => req.tool \in SerpTools
    /\ env.returns # SerpFails =>
          (req.tool = "search_round_trip_flights" /\ env.serp.n > 0)
    /\ env.scraper # ScraperEmpty =>
          (req.tool # "hybrid_flight_search" /\ env.serp.n = 0)
    /\ \A i \in 1..MaxSegments :
          env.segment[i] # ScraperEmpty =>
          (/\ req.tool = "get_multi_city_flights"
           /\ i <= Len(req.flight_segments.items)
           /\ env.scraper.kind = "raise"
           /\ env.scraper.type \in {"IndexError", "RuntimeError"})
    /\ env.serp = SerpReturnsTied => req.tool = "search_round_trip_flights"
    /\ env.prices = "int" =>
          (req.tool = "get_flights_on_date" /\ env.scraper.kind = "flights")

SearchInit ==
    /\ spc = "call"
    /\ sreq \in SearchRequests
    /\ senv \in {env \in SearchEnvs : SearchEnvFits(sreq, env)}
    /\ SearchIdle

SearchNext ==
    \/ get_flights_on_date
    \/ search_one_way_flights
    \/ search_round_trip_flights
    \/ get_multi_city_flights
    \/ search_direct_flights
    \/ search_flights_by_airline
    \/ search_flights_with_max_stops
    \/ hybrid_flight_search

----------------------------------------------------------------------------
\* The Amadeus server: flight offers, the sanitizer, confirm_flight_price.

\* A JSON object is a function from the keys it has to their values.
Has(dict, key) == key \in DOMAIN dict
Pop(dict, key) == [k \in DOMAIN dict \ {key} |-> dict[k]]

\* A segment: "number" always, "id" and "aircraft" or not.
OfferSegments ==
    {[k \in {"number"} \cup opt |->
         IF k = "id" THEN "1" ELSE IF k = "aircraft" THEN "32Q" ELSE "3237"] :
        opt \in SUBSET {"id", "aircraft"}}
SegmentSeqs ==
    {<<>>} \cup {<< a >> : a \in OfferSegments}
    \cup {<< a, b >> : a \in OfferSegments, b \in OfferSegments}

\* An itinerary: "duration" always, "segments" or not.
Itineraries ==
    {[duration |-> "PT8H1M"]}
    \cup {[duration |-> "PT8H1M", segments |-> segs] : segs \in SegmentSeqs}

RECURSIVE SeqsUpTo(_, _)
SeqsUpTo(S, n) ==
    IF n = 0 THEN {<<>>}
    ELSE LET shorter == SeqsUpTo(S, n - 1)
         IN  shorter \cup {Append(q, x) : q \in {r \in shorter : Len(r) = n - 1}, x \in S}

\* A flight offer: "price" always; "travelerPricings", "source" and
\* "itineraries" or not.
Offer(has_tp, has_source, itins) ==
    LET keys == {"price"} \cup (IF has_tp THEN {"travelerPricings"} ELSE {})
                          \cup (IF has_source THEN {"source"} ELSE {})
        value(k) == IF k = "price" THEN "69.94"
                    ELSE IF k = "travelerPricings" THEN "ADULT" ELSE "GDS"
    IN  [k \in keys \cup {"itineraries"} |->
            IF k = "itineraries" THEN itins ELSE value(k)]
Offers ==
    {Offer(tp, src, itins) : tp \in BOOLEAN, src \in BOOLEAN,
                             itins \in SeqsUpTo(Itineraries, MaxItineraries)}
    \cup {Pop(Offer(tp, src, <<>>), "itineraries") : tp \in BOOLEAN, src \in BOOLEAN}

\* Python objects: a copy of a dict, and whether the lists and dicts inside
\* it are the very objects of the original.
shallow_copy(obj) == [value |-> obj, shares_nested |-> TRUE]

deepcopy(obj) == [value |-> obj, shares_nested |-> FALSE]

\* segment.pop("aircraft", None) on every segment of every itinerary.
StripSegments(segments) == [j \in 1..Len(segments) |-> Pop(segments[j], "aircraft")]

\* With itinerary.setdefault("segments", []) in place of .get("segments", []).
StripItinerary_SetDefault(itinerary) ==
    IF ~Has(itinerary, "segments")
    THEN [k \in DOMAIN itinerary \cup {"segments"} |->
             IF k = "segments" THEN <<>> ELSE itinerary[k]]
    ELSE [k \in DOMAIN itinerary |->
            IF k = "segments" THEN StripSegments(itinerary[k]) ELSE itinerary[k]]

StripItinerary(itinerary) ==
    IF ~Has(itinerary, "segments") THEN itinerary
    ELSE [k \in DOMAIN itinerary |->
            IF k = "segments" THEN StripSegments(itinerary[k]) ELSE itinerary[k]]

StripAircraft(o) ==
    IF ~Has(o, "itineraries") THEN o
    ELSE [k \in DOMAIN o |->
            IF k = "itineraries"
            THEN [i \in 1..Len(o[k]) |-> StripItinerary(o[k][i])]
            ELSE o[k]]

\* sanitize_flight_offer_for_pricing: what it returns, and the object it was
\* given as the call leaves it.
sanitize_flight_offer_for_pricing(o) ==
    LET copy == deepcopy(o)
        sanitized == StripAircraft(copy.value)
    IN  [sanitized |-> sanitized,
         offer |-> IF copy.shares_nested THEN sanitized ELSE o]

\* One entry of missing_fields: a top-level key, or the id of a segment
\* (0-based indices, as enumerate gives them).
TopField(name) == [name |-> name, itin_idx |-> None, seg_idx |-> None]
SegmentIdField(itin_idx, seg_idx) == [name |-> "id", itin_idx |-> itin_idx, seg_idx |-> seg_idx]

\* The loop over offer["itineraries"]: the first segment without an id of an
\* itinerary is recorded, and the loop ends after the first itinerary with
\* segments once missing_fields is not empty.
RECURSIVE CheckItineraries(_, _, _)
CheckItineraries(itineraries, itin_idx, missing_fields) ==
    IF itin_idx >= Len(itineraries) THEN missing_fields
    ELSE LET itin == itineraries[itin_idx + 1]
         IN  IF ~Has(itin, "segments")
             THEN CheckItineraries(itineraries, itin_idx + 1, missing_fields)
             ELSE LET segs == itin["segments"]
                      lacking == {j \in 1..Len(segs) : ~Has(segs[j], "id")}
                      first == CHOOSE j \in lacking : \A l \in lacking : j <= l
                      found == IF lacking = {} THEN missing_fields
                               ELSE Append(missing_fields, SegmentIdField(itin_idx, first - 1))
                  IN  IF found # <<>> THEN found
                      ELSE CheckItineraries(itineraries, itin_idx + 1, found)

MissingFields_NoSourceCheck(o) ==
    LET top == IF ~Has(o, "travelerPricings") THEN << TopField("travelerPricings") >> ELSE <<>>
    IN  IF Has(o, "itineraries") THEN CheckItineraries(o["itineraries"], 0, top) ELSE top

\* The validation of confirm_flight_price: its missing_fields list.
MissingFields(o) ==
    LET top == (IF ~Has(o, "travelerPricings") THEN << TopField("travelerPricings") >> ELSE <<>>)
               \o (IF ~Has(o, "source") THEN << TopField("source") >> ELSE <<>>)
    IN  IF Has(o, "itineraries") THEN CheckItineraries(o["itineraries"], 0, top) ELSE top

PricingResult(kind, error, missing_fields) ==
    [kind |-> kind, error |-> error, missing_fields |-> missing_fields]

NoOffer == [price |-> ""]

PricingIdle ==
    /\ sanitized_offer = NoOffer
    /\ prequests = <<>>
    /\ presult = PricingResult("none", "", <<>>)

PricingOff ==
    /\ ppc = "off"
    /\ pcall = [function |-> "none"]
    /\ penv = [token |-> "cached"]
    /\ offer = NoOffer
    /\ PricingIdle

\* A call of the sanitizer on an offer, or of confirm_flight_price on the
\* JSON text of one (or on text that is no JSON). pcall.argument keeps the
\* offer as it was handed over.
PricingInit ==
    /\ ppc = "call"
    /\ \/ /\ offer \in Offers
          /\ pcall = [function |-> "sanitize_flight_offer_for_pricing", json_ok |-> TRUE,
                      argument |-> offer]
          /\ penv = [token |-> "cached", pricing |-> 200]
       \/ /\ offer \in Offers
          /\ pcall = [function |-> "confirm_flight_price", json_ok |-> TRUE,
                      argument |-> offer]
          \* token: a valid token is cached, or the token endpoint grants or
          \* refuses one; pricing: the pricing endpoint answers 200 or 400
          /\ penv \in [token : {"cached", "granted", "refused"}, pricing : {200, 400}]
       \/ /\ offer = NoOffer
          /\ pcall = [function |-> "confirm_flight_price", json_ok |-> FALSE,
                      argument |-> NoOffer]
          /\ penv = [token |-> "cached", pricing |-> 200]
    /\ PricingIdle

\* sanitize_flight_offer_for_pricing called on its own.
SanitizeCall ==
    /\ UNCHANGED <<rvars, avars, svars, tvars>>
    /\ ppc = "call" /\ pcall.function = "sanitize_flight_offer_for_pricing"
    /\ LET r == sanitize_flight_offer_for_pricing(offer)
       IN  /\ sanitized_offer' = r.sanitized
           /\ offer' = r.offer
    /\ ppc' = "done"
    /\ UNCHANGED <<pcall, penv, prequests, presult>>

confirm_flight_price ==
    /\ UNCHANGED <<rvars, avars, svars, tvars>>
    /\ ppc = "call" /\ pcall.function = "confirm_flight_price"
    /\ ppc' = "done"
    /\ UNCHANGED <<pcall, penv>>
    /\ IF ~pcall.json_ok
       THEN /\ presult' = PricingResult("error", "Invalid flight offer JSON", <<>>)
            /\ UNCHANGED <<offer, sanitized_offer, prequests>>
       ELSE IF MissingFields(offer) # <<>>
       THEN /\ presult' = PricingResult("error",
                              "Invalid flight offer format - missing required fields for pricing API",
                              MissingFields(offer))
            /\ UNCHANGED <<offer, sanitized_offer, prequests>>
       ELSE LET r == sanitize_flight_offer_for_pricing(offer)
                token_requests == IF penv.token = "cached" THEN <<>> ELSE << [endpoint |-> "/v1/security/oauth2/token", flightOffers |-> <<>>] >>
            IN  /\ sanitized_offer' = r.sanitized
                /\ offer' = r.offer
                /\ IF penv.token = "refused"
                   THEN /\ prequests' = token_requests
                        /\ presult' = PricingResult("error", "Failed to obtain access token", <<>>)
                   ELSE /\ prequests' = token_requests \o << [endpoint |-> "/v1/shopping/flight-offers/pricing",
                                                flightOffers |-> << r.sanitized >>] >>
                        /\ presult' = IF penv.pricing >= 400
                                      THEN PricingResult("error", "API request failed", <<>>)
                                      ELSE PricingResult("confirmed", "", <<>>)

PricingNext == SanitizeCall \/ confirm_flight_price

----------------------------------------------------------------------------
\* The Amadeus server: get_access_token and the module-level token cache.
\* Each caller is an asyncio task running amadeus_request; tasks switch only
\* at an await, so the statements between two awaits are one step.

\* The module after import; the clock starts at 0.
TokenInit ==
    /\ tenv \in [configured : BOOLEAN]
    /\ access_token = None
    /\ token_expiry = None
    /\ now = 0
    /\ callers = [c \in 1..MaxCallers |->
                     [pc |-> "idle", token |-> None, request |-> 0, result |-> [status |-> 0]]]
    /\ issued = {}
    /\ trequests = <<>>

TokenOff == TokenInit /\ ~tenv.configured

\* get_access_token up to its first await: the cached token while it is
\* valid, ValueError without credentials, else the POST to the token
\* endpoint.  The n-th token request is answered with token n, if at all.
get_access_token(c) ==
    /\ UNCHANGED <<rvars, avars, svars, pvars>>
    /\ UNCHANGED <<tenv, access_token, token_expiry, now, issued>>
    /\ callers[c].pc = "idle"
    /\ IF access_token # None /\ token_expiry # None /\ now < token_expiry
       THEN /\ callers' = [callers EXCEPT ![c].pc = "returned", ![c].token = access_token]
            /\ UNCHANGED trequests
       ELSE IF ~tenv.configured
       THEN /\ callers' = [callers EXCEPT ![c].pc = "raised", ![c].token = None]
            /\ UNCHANGED trequests
       ELSE /\ Len(trequests) < MaxRequests
            /\ trequests' = Append(trequests, [kind |-> "token", caller |-> c, token |-> None])
            /\ callers' = [callers EXCEPT ![c].pc = "posted", ![c].token = None,
                                          ![c].request = Len(trequests')]

\* get_access_token from the response of the token endpoint to its return
\* or raise.  A body is a JSON object; expires_in, when present, is a
\* number of seconds or another JSON value (null).
token_response(c) ==
    /\ UNCHANGED <<rvars, avars, svars, pvars>>
    /\ UNCHANGED <<tenv, now, trequests>>
    /\ callers[c].pc = "posted"
    /\ \E result \in
            {[status |-> 401, body |-> [error |-> "invalid_client"]],
             [status |-> 200, body |-> [token_type |-> "Bearer"]],
             [status |-> 200, body |-> [access_token |-> callers[c].request]]}
            \cup {[status |-> 200,
                   body |-> [access_token |-> callers[c].request, expires_in |-> e]] :
                      e \in {[type |-> "number", value |-> 60 * m] : m \in 1..3}
                            \cup {[type |-> "null", value |-> 0]}} :
          LET raise == callers' = [callers EXCEPT ![c].pc = "raised", ![c].result = result]
          IN  IF result.status # 200 \/ "access_token" \notin DOMAIN result.body
              THEN raise /\ UNCHANGED <<access_token, token_expiry, issued>>
              ELSE LET expires_in == IF "expires_in" \in DOMAIN result.body
                                     THEN result.body.expires_in
                                     ELSE [type |-> "number", value |-> 1799]
                   IN  /\ access_token' = result.body.access_token
                       /\ IF expires_in.type # "number"
                          THEN raise /\ UNCHANGED <<token_expiry, issued>>
                          ELSE /\ token_expiry' = now + expires_in.value - 60
                               /\ issued' = issued \cup {<<access_token', token_expiry'>>}
                               /\ callers' = [callers EXCEPT ![c].pc = "returned",
                                                             ![c].token = access_token',
                                                             ![c].result = result]

\* amadeus_request after "token = await get_access_token()": the request
\* with the Bearer token, or the exception of get_access_token leaving it.
amadeus_request(c) ==
    /\ UNCHANGED <<rvars, avars, svars, pvars>>
    /\ UNCHANGED <<tenv, access_token, token_expiry, now, issued>>
    /\ callers[c].pc \in {"returned", "raised"}
    /\ callers' = [callers EXCEPT ![c].pc = "idle"]
    /\ IF callers[c].pc = "returned"
       THEN /\ Len(trequests) < MaxRequests
            /\ trequests' = Append(trequests, [kind |-> "api", caller |-> c,
                                               token |-> callers[c].token])
       ELSE UNCHANGED trequests

\* A minute passes.
ClockAdvances ==
    /\ UNCHANGED <<rvars, avars, svars, pvars>>
    /\ UNCHANGED <<tenv, access_token, token_expiry, callers, issued, trequests>>
    /\ now < 60 * MaxClock
    /\ now' = now + 60

TokenNext ==
    \/ \E c \in 1..MaxCallers : get_access_token(c)
    \/ \E c \in 1..MaxCallers : token_response(c)
    \/ \E c \in 1..MaxCallers : amadeus_request(c)
    \/ ClockAdvances

----------------------------------------------------------------------------
\* The specifications: one tool runs, the others stay idle.

SpecRangeInit == RangeInit /\ AirportsOff /\ SearchOff /\ PricingOff /\ TokenOff
SpecRange == SpecRangeInit /\ [][RangeNext]_vars

SpecAirportsInit == AirportsInit /\ RangeOff /\ SearchOff /\ PricingOff /\ TokenOff
SpecAirports == SpecAirportsInit /\ [][AirportsNext]_vars

SpecSearchInit == SearchInit /\ RangeOff /\ AirportsOff /\ PricingOff /\ TokenOff
SpecSearch == SpecSearchInit /\ [][SearchNext]_vars

SpecPricingInit == PricingInit /\ RangeOff /\ AirportsOff /\ SearchOff /\ TokenOff
SpecPricing == SpecPricingInit /\ [][PricingNext]_vars

SpecTokenInit == TokenInit /\ RangeOff /\ AirportsOff /\ SearchOff /\ PricingOff
SpecToken == SpecTokenInit /\ [][TokenNext]_vars

\* Either a single-query search or the date-range batch runs.
SpecSearchOrRangeInit == SpecSearchInit \/ SpecRangeInit
SpecSearchOrRange == SpecSearchOrRangeInit /\ [][SearchNext \/ RangeNext]_vars

----------------------------------------------------------------------------
\* Claims about search_round_trips_in_date_range.

\* The request has well-formed dates with start <= end, and the tool is past
\* its ceiling check.
RangeChecked ==
    /\ rpc \in {"loop", "done"}
    /\ DateOk(rreq.start_date_str) /\ DateOk(rreq.end_date_str)
    /\ strptime(rreq.start_date_str) <= strptime(rreq.end_date_str)

\* The date pairs the request asks for, as a set: start <= depart <= return
\* <= end with the stay inside the optional bounds.
WantedPairs ==
    LET lo == strptime(rreq.start_date_str)
        hi == strptime(rreq.end_date_str)
    IN  {p \in (lo..hi) \X (lo..hi) :
            /\ p[1] <= p[2]
            /\ rreq.min_stay_days # None => p[2] - p[1] >= rreq.min_stay_days
            /\ rreq.max_stay_days # None => p[2] - p[1] <= rreq.max_stay_days}

LexLeq(p, q) == p[1] < q[1] \/ (p[1] = q[1] /\ p[2] <= q[2])

\* 1-based position of a wanted pair in departure-then-return order.
PairRank(p) == Cardinality({q \in WantedPairs : LexLeq(q, p)})

\* The pairs of the page (offset, limit): ranks offset+1 .. offset+limit, or
\* every rank above offset when limit <= 0.
WantedSlice ==
    {p \in WantedPairs :
        /\ PairRank(p) > rreq.offset
        /\ rreq.limit > 0 => PairRank(p) <= rreq.offset + rreq.limit}

\* The size of that page, from the number of wanted pairs alone.
PageSize ==
    LET total == Cardinality(WantedPairs)
        rest == IF total > rreq.offset THEN total - rreq.offset ELSE 0
    IN  IF rreq.limit > 0 THEN Min(rest, rreq.limit) ELSE rest

RangeRejected ==
    /\ rpc = "done"
    /\ routput.kind = "error"
    /\ routput.type = "RateLimitError"

CalledPairs == {<<rcalls[i].depart, rcalls[i].ret>> : i \in 1..Len(rcalls)}

----------------------------------------------------------------------------
\* compare_nearby_airports: the claims.

AirportsChecked ==
    /\ apc \in {"loop", "done"}
    /\ areq.origin_airports.json = "list" /\ areq.destination_airports.json = "list"
    /\ DateOk(areq.date)

\* C3 as stated: the number of (origin, destination) pairs is computed before
\* any call is made, and a comparison of more than 12 pairs is rejected with a
\* structured error and no source call.
C3_Original ==
    (AirportsChecked /\ total_combinations > 12) =>
        /\ apc = "done"
        /\ aoutput.kind = "error"
        /\ acalls = <<>>

----------------------------------------------------------------------------
\* The single-query search tools: the claims.

SearchDone(tools) == spc = "done" /\ sreq.tool \in tools

\* The dates the tool reads are well-formed and present.
DatesOk ==
    /\ sreq.tool # "get_multi_city_flights" => DateOk(sreq.date)
    /\ sreq.is_round_trip => DateOk(sreq.return_date)

SegmentsOk ==
    /\ sreq.flight_segments.json = "list"
    /\ Len(sreq.flight_segments.items) >= 2
    /\ \A i \in 1..Len(sreq.flight_segments.items) :
          /\ DateOk(sreq.flight_segments.items[i].date)
          /\ sreq.flight_segments.items[i].has_from
          /\ sreq.flight_segments.items[i].has_to

\* A request the spec calls well-formed.
WellFormed ==
    /\ DatesOk
    /\ sreq.tool = "get_multi_city_flights" => SegmentsOk
    /\ sreq.tool = "search_flights_by_airline" => sreq.airlines.items # <<>>
    /\ sreq.max_stops \in {None, 0, 1, 2}

\* The flights fast-flights returned, as the response lists them.
ScrapedDicts(n) == [i \in 1..n |-> flight_to_dict(ScrapedFlight(i))]

\* C4 as stated: SerpApi is configured and its call fails, fast-flights
\* returns n <= max_results flights; a one-way or round-trip search returns
\* exactly those n flights, no error, and the response records that SerpApi
\* was tried and why it was skipped.
C4_Original ==
    (/\ SearchDone({"search_one_way_flights", "search_round_trip_flights"})
     /\ WellFormed /\ ~sreq.return_cheapest_only
     /\ senv.enabled /\ senv.serp = SerpFails
     /\ senv.scraper.kind = "flights" /\ senv.scraper.n <= sreq.max_results) =>
        /\ sresponse.kind = "results"
        /\ sresponse.flights = ScrapedDicts(senv.scraper.n)
        /\ sresponse.serpapi_note # ""

\* C5 as stated: SerpApi answers a well-formed request with zero flights;
\* the tool calls no other source and returns an empty result that is no
\* error.
C5_Original ==
    (/\ SearchDone({"search_one_way_flights", "search_round_trip_flights",
                    "get_multi_city_flights", "search_flights_by_airline"})
     /\ WellFormed
     /\ senv.enabled /\ senv.serp = SerpReturns(0)) =>
        /\ \A i \in 1..Len(scalls) : scalls[i].source = "SerpApi"
        /\ sresponse.kind \in {"results", "message"}
        /\ sresponse.flights = <<>>

\* C5 amended: when SerpApi answers a well-formed request with zero flights,
\* search_one_way_flights, search_round_trip_flights, get_multi_city_flights
\* and search_flights_by_airline ask fast-flights next, for the same trip, as
\* they do after a SerpApi failure, and the response is made from the
\* fast-flights answer: its flights when it returns some (for
\* search_flights_by_airline, those of the airlines asked for), a message
\* that nothing was found when it returns none. In
\* search_round_trips_in_date_range every pair SerpApi answers with zero
\* flights is asked of fast-flights right after.
C5_FallsBackOnEmpty ==
    /\ (/\ SearchDone({"search_one_way_flights", "search_round_trip_flights",
                       "get_multi_city_flights", "search_flights_by_airline"})
        /\ WellFormed
        /\ senv.enabled /\ senv.serp = SerpReturns(0)) =>
           /\ Len(scalls) >= 2
           /\ scalls[1].source = "SerpApi"
           /\ scalls[2].source = "fast-flights"
           /\ scalls[2].trip = scalls[1].trip
           /\ \A i \in 2..Len(scalls) : scalls[i].source = "fast-flights"
           /\ sresponse.source # "SerpApi"
           /\ (senv.scraper.kind = "flights"
               /\ sreq.tool # "search_flights_by_airline"
               /\ ~sreq.return_cheapest_only) =>
                  /\ sresponse.kind = "results"
                  /\ sresponse.flights =
                        Truncate(ScrapedDicts(senv.scraper.n), sreq.max_results)
           /\ (senv.scraper.kind = "flights"
               /\ sreq.tool = "search_flights_by_airline") =>
                  /\ sresponse.kind \in {"results", "message"}
                  /\ \A i \in 1..Len(sresponse.flights) :
                        \E j \in 1..senv.scraper.n :
                            sresponse.flights[i] = flight_to_dict(ScrapedFlight(j))
           /\ senv.scraper.kind = "empty" =>
                  (sresponse.kind = "message" /\ sresponse.flights = <<>>)
    /\ (rpc \in {"loop", "done"} /\ renv.enabled /\ renv.serp = "empty") =>
           \A i \in 1..Len(rcalls) :
              (rcalls[i].source = "SerpApi" /\ rcalls[i].depart = renv.bad_day) =>
                  /\ i < Len(rcalls)
                  /\ rcalls[i + 1].source = "fast-flights"
                  /\ rcalls[i + 1].depart = rcalls[i].depart
                  /\ rcalls[i + 1].ret = rcalls[i].ret

\* SerpApi answered with zero flights and the flights of the response are
\* those of fast-flights.
C5_Witness ==
    /\ SearchDone({"search_round_trip_flights"})
    /\ senv.enabled /\ senv.serp = SerpReturns(0)
    /\ senv.scraper.kind = "flights"
    /\ sresponse.kind = "results" /\ Len(sresponse.flights) = senv.scraper.n
    /\ Len(scalls) = 2

\* Every source the tool asks has failed.
AllSourcesFail ==
    /\ senv.serp = SerpFails
    /\ sreq.tool = "hybrid_flight_search" \/ senv.scraper.kind = "raise"

\* C6 as stated: when every source fails the tool does not raise, and it
\* returns one structured error that carries the last source's message
\* unchanged, names the source, and has a Google Flights URL.
C6_Original ==
    (/\ SearchDone({"search_one_way_flights", "search_round_trip_flights",
                    "search_direct_flights", "search_flights_with_max_stops",
                    "search_flights_by_airline", "hybrid_flight_search"})
     /\ WellFormed
     /\ AllSourcesFail) =>
        /\ sresponse.kind = "error"
        /\ sreq.tool # "hybrid_flight_search" =>
              sresponse.error = ErrText("", senv.scraper.msg)
        /\ sresponse.google_flights_url # ""
        /\ sresponse.serpapi_note # "" \/ sresponse.source # ""

\* The input is malformed: a date that does not parse, an empty list of
\* airlines or of segments, a max_stops outside 0, 1, 2.
Malformed ==
    \/ ~DatesOk
    \/ sreq.tool = "search_flights_by_airline" /\ sreq.airlines.items = <<>>
    \/ sreq.tool = "get_multi_city_flights" /\ sreq.flight_segments = JsonList(<<>>)
    \/ sreq.max_stops \notin {None, 0, 1, 2}

\* C7 as stated: malformed input is rejected with a validation error and no
\* source is called, in every tool of the server that takes that input.
C7_Original ==
    (/\ SearchDone({"search_one_way_flights", "search_round_trip_flights",
                    "search_direct_flights", "search_flights_with_max_stops",
                    "search_flights_by_airline", "get_multi_city_flights"})
     /\ Malformed) =>
        /\ sresponse.kind = "error"
        /\ scalls = <<>>

----------------------------------------------------------------------------
\* The Amadeus server: the claims.

SanitizerRan == ppc = "done" /\ sanitized_offer # NoOffer

\* out is the segment seg without its aircraft, every other key as it was.
SameButAircraft(out, seg) ==
    /\ DOMAIN out = DOMAIN seg \ {"aircraft"}
    /\ \A k \in DOMAIN out : out[k] = seg[k]

\* out is the itinerary itin with every segment stripped of its aircraft.
SameItinerary(out, itin) ==
    /\ DOMAIN out = DOMAIN itin
    /\ \A k \in DOMAIN itin \ {"segments"} : out[k] = itin[k]
    /\ Has(itin, "segments") =>
          /\ Len(out["segments"]) = Len(itin["segments"])
          /\ \A j \in 1..Len(itin["segments"]) :
                SameButAircraft(out["segments"][j], itin["segments"][j])

\* C8: the sanitizer returns the offer without the aircraft of any segment of
\* any itinerary, every other field as in the input, and the offer object it
\* was given is the same after the call as before.
C8_SanitizedCopy ==
    SanitizerRan =>
        /\ DOMAIN sanitized_offer = DOMAIN pcall.argument
        /\ \A k \in DOMAIN pcall.argument \ {"itineraries"} :
              sanitized_offer[k] = pcall.argument[k]
        /\ Has(pcall.argument, "itineraries") =>
              /\ Len(sanitized_offer["itineraries"]) = Len(pcall.argument["itineraries"])
              /\ \A i \in 1..Len(pcall.argument["itineraries"]) :
                    SameItinerary(sanitized_offer["itineraries"][i],
                                  pcall.argument["itineraries"][i])
        /\ offer = pcall.argument

\* The sanitizer has run on an offer with an aircraft on both segments of an
\* itinerary.
C8_Witness ==
    /\ SanitizerRan
    /\ pcall.function = "sanitize_flight_offer_for_pricing"
    /\ Has(pcall.argument, "itineraries")
    /\ \E i \in 1..Len(pcall.argument["itineraries"]) :
          LET itin == pcall.argument["itineraries"][i]
          IN  /\ Has(itin, "segments")
              /\ Len(itin["segments"]) = 2
              /\ \A j \in 1..2 : Has(itin["segments"][j], "aircraft")
    /\ sanitized_offer # pcall.argument

\* The offer has travelerPricings, source, and an id on every segment.
Complete(o) ==
    /\ Has(o, "travelerPricings")
    /\ Has(o, "source")
    /\ Has(o, "itineraries") =>
          \A i \in 1..Len(o["itineraries"]) :
              Has(o["itineraries"][i], "segments") =>
                  \A j \in 1..Len(o["itineraries"][i]["segments"]) :
                      Has(o["itineraries"][i]["segments"][j], "id")

ConfirmDone == ppc = "done" /\ pcall.function = "confirm_flight_price"

PricingRequests ==
    {i \in 1..Len(prequests) : prequests[i].endpoint = "/v1/shopping/flight-offers/pricing"}

\* C9: confirm_flight_price sends a request to the pricing endpoint only for
\* an offer that has travelerPricings, source and an id on every segment of
\* every itinerary; for any other offer it sends no request at all and
\* returns an error.
C9_NoPartialSubmission ==
    ConfirmDone =>
        /\ PricingRequests # {} => (pcall.json_ok /\ Complete(pcall.argument))
        /\ (pcall.json_ok /\ ~Complete(pcall.argument)) =>
              /\ prequests = <<>>
              /\ presult.kind = "error"

\* An offer whose only gap is a segment id in its second itinerary has been
\* turned down without a request.
C9_Witness ==
    /\ ConfirmDone /\ pcall.json_ok
    /\ Has(pcall.argument, "travelerPricings") /\ Has(pcall.argument, "source")
    /\ Has(pcall.argument, "itineraries")
    /\ Len(pcall.argument["itineraries"]) = 2
    /\ Complete(Offer(TRUE, TRUE, << pcall.argument["itineraries"][1] >>))
    /\ ~Complete(pcall.argument)
    /\ prequests = <<>>
    /\ presult.kind = "error"

\* The required fields the offer lacks.
AbsentRequired(o) ==
    (IF Has(o, "travelerPricings") THEN {} ELSE {TopField("travelerPricings")})
    \cup (IF Has(o, "source") THEN {} ELSE {TopField("source")})
    \cup (IF ~Has(o, "itineraries") THEN {}
          ELSE UNION {IF ~Has(o["itineraries"][i], "segments") THEN {}
                      ELSE {SegmentIdField(i - 1, j - 1) :
                              j \in {l \in 1..Len(o["itineraries"][i]["segments"]) :
                                       ~Has(o["itineraries"][i]["segments"][l], "id")}} :
                      i \in 1..Len(o["itineraries"])})

\* C10 as stated: the missing_fields of a rejection are exactly the required
\* fields the offer lacks, the id of every segment without one included.
C10_Original ==
    (ConfirmDone /\ pcall.json_ok /\ presult.missing_fields # <<>>) =>
        {presult.missing_fields[i] : i \in 1..Len(presult.missing_fields)}
            = AbsentRequired(pcall.argument)

----------------------------------------------------------------------------
\* Claims about the reconciliation of round trips.

\* What combine_outbound_and_return_flights made: a round trip, or the error
\* dict of its handler.
Combined(e) == "outbound_details" \in DOMAIN e \/ "outbound" \in DOMAIN e

\* C11 as stated: every element that combine_outbound_and_return_flights
\* produced and search_round_trip_flights returns has a price, and it is the
\* outbound flight's price plus the return flight's price.
C11_Original ==
    (SearchDone({"search_round_trip_flights"}) /\ sresponse.kind = "results") =>
        \A i \in 1..Len(sresponse.flights) :
            LET e == sresponse.flights[i]
            IN  Combined(e) =>
                    /\ "price" \in DOMAIN e
                    /\ e.price = IntPrice(e.outbound_details.price.v
                                          + e.return_details.price.v)

\* The response of search_round_trip_flights is made of round trips that
\* SerpApi's outbound and return flights were combined into.
RoundTripsReturned ==
    /\ SearchDone({"search_round_trip_flights"})
    /\ sresponse.kind = "results" /\ sresponse.source = "SerpApi"
    /\ sresponse.flights # <<>>
    /\ \A i \in 1..Len(sresponse.flights) : "outbound_details" \in DOMAIN sresponse.flights[i]

\* The Cartesian product of the outbound candidates (the flights of the
\* search that carry a departure token) and the return candidates, as pairs
\* of positions in SerpApi's lists, and the combined price of a pair.
CandidatePairs ==
    LET raw == SerpResult(senv.serp).best_flights \o SerpResult(senv.serp).other_flights
        rets == convert_serpapi_response(SerpResult(senv.returns))
    IN  {kj \in (1..Len(raw)) \X (1..Len(rets)) : raw[kj[1]].departure_token # ""}

PairPrice(kj) ==
    LET raw == SerpResult(senv.serp).best_flights \o SerpResult(senv.serp).other_flights
        rets == convert_serpapi_response(SerpResult(senv.returns))
    IN  raw[kj[1]].price.v + rets[kj[2]].price.v

\* C12 as stated: the N round trips returned are the N cheapest pairs of the
\* Cartesian product of outbound and return candidates: no returned pair has
\* N or more pairs of the product below it, and the cheapest pair of the
\* product is among those returned.
C12_Original ==
    (RoundTripsReturned /\ senv.returns.kind = "answers") =>
        LET N == Len(sresponse.flights)
        IN  /\ \A i \in 1..N :
                  Cardinality({kj \in CandidatePairs :
                                  PairPrice(kj) < sresponse.flights[i].price.v}) < N
            /\ \E i \in 1..N : \A kj \in CandidatePairs :
                  sresponse.flights[i].price.v <= PairPrice(kj)

\* ---------------------------------------------------------------------------
\* Claims about the shape of flight records.

\* The flight records of a successful search by a tool that builds them with
\* normalize_serpapi_flight, combine_outbound_and_return_flights or
\* flight_to_dict; the records of a multi-city fallback are those of its
\* segments.
ReturnedRecords ==
    IF spc = "done" /\ sresponse.kind = "results" /\ sreq.tool # "hybrid_flight_search"
    THEN UNION {LET f == sresponse.flights[i]
                IN  IF "has" \in DOMAIN f THEN {f.flights[j] : j \in 1..Len(f.flights)} ELSE {f}
                : i \in 1..Len(sresponse.flights)}
    ELSE {}

OneWayTools == {"search_one_way_flights", "get_flights_on_date"}

\* The numbers of the prices the source of a finished one-way search
\* returned that are integers or '$'-prefixed numbers: SerpApi's when it
\* answered with flights, else fast-flights'.
SourcePrices ==
    IF sresponse.source = "SerpApi"
    THEN {SerpFlight(i).price.v : i \in 1..senv.serp.n}
    ELSE {ScrapedFlight(i).price.v : i \in {j \in 1..senv.scraper.n : ScrapedFlight(j).price.t = "usd"}}

\* C14 as stated: a one-way search with return_cheapest_only whose source
\* returned flights returns exactly one flight, and when the source gave a
\* price as an integer or a '$'-prefixed number, the returned flight has such
\* a price and none of the source's prices is lower.
C14_Original ==
    (/\ SearchDone(OneWayTools) /\ sreq.return_cheapest_only
     /\ sresponse.kind = "results") =>
        /\ Len(sresponse.flights) = 1
        /\ SourcePrices # {} =>
              /\ sresponse.flights[1].price.t \in {"int", "usd"}
              /\ \A v \in SourcePrices : sresponse.flights[1].price.v <= v

\* ---------------------------------------------------------------------------
\* Claims about a round trip whose return flights could not be fetched.

\* SerpApi listed outbound flights for a round-trip search, and no lookup by
\* departure token gave a return flight.
NoReturnOptions ==
    /\ SearchDone({"search_round_trip_flights"}) /\ DatesOk
    /\ senv.enabled /\ senv.serp.kind = "answers" /\ senv.serp.n > 0
    /\ (senv.returns.kind = "fails" \/ senv.returns.n = 0)

\* C15 as stated: when the outbound flights were found and no return flight
\* was, the response says so (it carries a message or a note, or is no result
\* set), and the outbound flights are not listed under the keys of the
\* complete round trips.
C15_Original ==
    NoReturnOptions =>
        /\ sresponse.kind # "results" \/ sresponse.message # "" \/ sresponse.serpapi_note # ""
        /\ sresponse.result_key \notin {"round_trip_options", "cheapest_round_trip_option"}

\* ---------------------------------------------------------------------------
\* Claims about sanitizing twice.

\* No segment of any itinerary of the offer has an aircraft.
AircraftFree(o) ==
    Has(o, "itineraries") =>
        \A i \in 1..Len(o["itineraries"]) :
            Has(o["itineraries"][i], "segments") =>
                \A j \in 1..Len(o["itineraries"][i]["segments"]) :
                    ~Has(o["itineraries"][i]["segments"][j], "aircraft")

\* C16: the sanitizer returns an offer without aircraft as it was given, and
\* what the sanitizer returned, for any offer, is such an offer: sanitizing it
\* again returns it unchanged.
C16_Idempotent ==
    SanitizerRan =>
        /\ AircraftFree(pcall.argument) => sanitized_offer = pcall.argument
        /\ AircraftFree(sanitized_offer)
        /\ sanitize_flight_offer_for_pricing(sanitized_offer).sanitized = sanitized_offer

\* The sanitizer has run on an offer of two itineraries, one without
\* segments and one with two segments, none with an aircraft.
C16_Witness ==
    /\ SanitizerRan
    /\ pcall.function = "sanitize_flight_offer_for_pricing"
    /\ AircraftFree(pcall.argument)
    /\ Has(pcall.argument, "itineraries")
    /\ Len(pcall.argument["itineraries"]) = 2
    /\ ~Has(pcall.argument["itineraries"][1], "segments")
    /\ Has(pcall.argument["itineraries"][2], "segments")
    /\ Len(pcall.argument["itineraries"][2]["segments"]) = 2

\* ---------------------------------------------------------------------------
\* Claims about the calls to the scraper.

\* The calls to fast-flights' get_flights a finished tool has made.
ScraperCalls == {i \in 1..Len(scalls) : scalls[i].source = "fast-flights"}

\* C17 as stated: every get_flights call of search_one_way_flights,
\* search_round_trip_flights, search_direct_flights and get_multi_city_flights
\* passes fetch_mode = 'fallback'.
C17_Original ==
    SearchDone({"search_one_way_flights", "search_round_trip_flights",
                "search_direct_flights", "get_multi_city_flights"}) =>
        \A i \in ScraperCalls : scalls[i].fetch_mode = "fallback"

\* C18: search_direct_flights makes exactly one get_flights call for a request
\* it accepts, none for one it rejects, and never asks another source; the
\* call has max_stops = 0, and for a round trip trip = 'round-trip' with the
\* leg out on the departure date and the leg back on the return date, for a
\* one-way trip = 'one-way' with the one leg.
C18_OneDirectCall ==
    SearchDone({"search_direct_flights"}) =>
        /\ Len(scalls) = (IF DatesOk THEN 1 ELSE 0)
        /\ \A i \in 1..Len(scalls) :
              /\ scalls[i].source = "fast-flights"
              /\ scalls[i].max_stops = 0
              /\ IF sreq.is_round_trip
                 THEN /\ scalls[i].trip = "round-trip"
                      /\ Len(scalls[i].flight_data) = 2
                      /\ scalls[i].flight_data[1] =
                            [date |-> sreq.date, from_airport |-> "origin",
                             to_airport |-> "destination"]
                      /\ scalls[i].flight_data[2] =
                            [date |-> sreq.return_date, from_airport |-> "destination",
                             to_airport |-> "origin"]
                 ELSE /\ scalls[i].trip = "one-way"
                      /\ Len(scalls[i].flight_data) = 1
                      /\ scalls[i].flight_data[1] =
                            [date |-> sreq.date, from_airport |-> "origin",
                             to_airport |-> "destination"]

\* A direct round-trip search has returned flights.
C18_Witness ==
    /\ SearchDone({"search_direct_flights"})
    /\ sreq.is_round_trip
    /\ sresponse.kind = "results" /\ sresponse.flights # <<>>
    /\ Len(scalls) = 1

\* ---------------------------------------------------------------------------
\* Claims about hybrid_flight_search.

\* C19 as stated: hybrid_flight_search answers from fast-flights when the
\* SerpAPI key is not configured or the SerpAPI request fails, from SerpAPI in
\* every other case, and the source field of the response names the source
\* the flights came from.
C19_Original ==
    SearchDone({"hybrid_flight_search"}) =>
        IF senv.enabled /\ senv.serp.kind # "fails"
        THEN sresponse.kind = "results" /\ sresponse.source = "serpapi"
        ELSE sresponse.kind \in {"results", "message"} /\ sresponse.source = "fast-flights"

\* ---------------------------------------------------------------------------
\* Claims about the enumeration of date pairs.

\* C20: the pairs search_round_trips_in_date_range enumerates are exactly the
\* pairs (depart, return) with start <= depart <= return <= end whose stay is
\* inside the optional bounds, each once, in order of departure then return;
\* total_date_pairs is their number, which is n(n+1)/2 for a window of n days
\* without stay constraints, and the response reports it.
C20_PairsEnumerated ==
    RangeChecked =>
        LET lo == strptime(rreq.start_date_str)
            hi == strptime(rreq.end_date_str)
            n == hi - lo + 1
            pairs == EnumeratePairs(lo, hi, rreq.min_stay_days, rreq.max_stay_days)
        IN  /\ {pairs[i] : i \in 1..Len(pairs)} = WantedPairs
            /\ \A i \in 1..(Len(pairs) - 1) :
                  LexLeq(pairs[i], pairs[i + 1]) /\ pairs[i] # pairs[i + 1]
            /\ total_date_pairs = Cardinality(WantedPairs)
            /\ (rreq.min_stay_days = None /\ rreq.max_stay_days = None) =>
                  total_date_pairs = (n * (n + 1)) \div 2
            /\ "pagination" \in DOMAIN routput =>
                  routput.pagination.total_date_pairs = Cardinality(WantedPairs)
            /\ RangeRejected =>
                  routput.total_combinations_available = Cardinality(WantedPairs)

\* A window of four days with a stay of at least one day has been searched:
\* six pairs, reported in the response.
C20_Witness ==
    /\ RangeChecked /\ rpc = "done"
    /\ strptime(rreq.end_date_str) - strptime(rreq.start_date_str) + 1 = 4
    /\ rreq.min_stay_days = 1 /\ rreq.max_stay_days = None
    /\ "pagination" \in DOMAIN routput
    /\ routput.pagination.total_date_pairs = 6

\* ---------------------------------------------------------------------------
\* Claims about the order in which the sources are asked.

\* The initial SerpApi searches among the calls of a search tool: every
\* SerpApi call that is not a lookup of return flights by departure token.
InitialSerpCalls ==
    {i \in 1..Len(scalls) : scalls[i].source = "SerpApi" /\ scalls[i].trip # "return-flights"}

\* The positions in rcalls of the calls a source got for one date pair.
RangeCallsOf(source, p) ==
    {i \in 1..Len(rcalls) :
        rcalls[i].source = source /\ rcalls[i].depart = p[1] /\ rcalls[i].ret = p[2]}

\* C21: for the query of a one-way, round-trip or by-airline search, and for
\* the query of every date pair of a date-range search, SerpApi is asked at
\* most once and only when it is enabled, the scraper at most once, and a
\* scraper call comes after every SerpApi call of the same query, directly
\* after the initial one in a date-range search.
C21_SerpApiThenScraper ==
    /\ SearchDone({"search_one_way_flights", "search_round_trip_flights",
                   "search_flights_by_airline"}) =>
          /\ Cardinality(InitialSerpCalls) <= 1
          /\ Cardinality(ScraperCalls) <= 1
          /\ ~senv.enabled => InitialSerpCalls = {}
          /\ (senv.enabled /\ scalls # <<>>) => InitialSerpCalls = {1}
          /\ \A j \in ScraperCalls :
                j = Len(scalls) /\ \A i \in 1..(j - 1) : scalls[i].source = "SerpApi"
    /\ \A k \in 1..Len(rcalls) :
          LET p == <<rcalls[k].depart, rcalls[k].ret>>
          IN  /\ Cardinality(RangeCallsOf("SerpApi", p)) <= 1
              /\ Cardinality(RangeCallsOf("fast-flights", p)) <= 1
              /\ ~renv.enabled => RangeCallsOf("SerpApi", p) = {}
              /\ (renv.enabled /\ rcalls[k].source = "fast-flights") =>
                    RangeCallsOf("SerpApi", p) = {k - 1}

\* SerpApi was asked first and failed, and the scraper was asked after it.
C21_Witness ==
    /\ SearchDone({"search_one_way_flights", "search_round_trip_flights",
                   "search_flights_by_airline"})
    /\ Len(scalls) = 2
    /\ scalls[1].source = "SerpApi" /\ scalls[2].source = "fast-flights"

\* ---------------------------------------------------------------------------
\* Claims about the lookups of return flights.

\* The flights SerpApi listed for the search, in its order.
ListedOutbound == SerpResult(senv.serp).best_flights \o SerpResult(senv.serp).other_flights

\* The positions in scalls of the lookups by departure token.
ReturnLookups == {i \in 1..Len(scalls) : scalls[i].trip = "return-flights"}

\* C22 as stated: at most 3 lookups follow the outbound call, and they are
\* for the 3 cheapest outbound offers: the token of a listed offer that at
\* most two other offers match or undercut is looked up.
C22_Original ==
    (SearchDone({"search_round_trip_flights"}) /\ senv.serp.kind = "answers") =>
        /\ Cardinality(ReturnLookups) <= 3
        /\ scalls # <<>> =>
              \A k \in 1..Len(ListedOutbound) :
                  (/\ ListedOutbound[k].departure_token # ""
                   /\ Cardinality({j \in 1..Len(ListedOutbound) \ {k} :
                          ListedOutbound[j].price.v <= ListedOutbound[k].price.v}) < 3) =>
                      \E i \in ReturnLookups :
                          scalls[i].departure_token = ListedOutbound[k].departure_token

\* C22, amended: at most 3 lookups follow the outbound call, however many
\* outbound offers were returned, and they are for the first 3 offers in the
\* order SerpApi listed them: every token looked up is the token of one of
\* those, and the lookups come after the outbound call and before any other.
C22_FirstThreeLookedUp ==
    SearchDone({"search_round_trip_flights"}) =>
        /\ Cardinality(ReturnLookups) <= 3
        /\ \A i \in ReturnLookups :
              /\ i > 1 /\ i <= 4
              /\ scalls[1].source = "SerpApi" /\ scalls[1].trip = "round-trip"
              /\ \E k \in 1..Min(3, Len(ListedOutbound)) :
                    scalls[i].departure_token = ListedOutbound[k].departure_token

\* SerpApi listed four outbound offers, the fourth with a token and cheaper
\* than the third, and the lookups were made for the first two only.
C22_Witness ==
    /\ SearchDone({"search_round_trip_flights"})
    /\ senv.serp = SerpReturns(4)
    /\ ListedOutbound[4].departure_token # ""
    /\ ListedOutbound[4].price.v < ListedOutbound[3].price.v
    /\ Cardinality(ReturnLookups) = 2
    /\ \A i \in ReturnLookups : scalls[i].departure_token # ListedOutbound[4].departure_token

\* The tokens of the lookups, in the order they were made.
LookupTokens ==
    LET lookups == SelectSeq(scalls, LAMBDA c : c.trip = "return-flights")
    IN  [i \in 1..Len(lookups) |-> lookups[i].departure_token]

\* The tokens SerpApi gave with the first three offers it listed, in order,
\* the offers without a token left out.
OwnTokens ==
    LET firsts == SubSeq(ListedOutbound, 1, Min(3, Len(ListedOutbound)))
        with_token == SelectSeq(firsts, LAMBDA f : f.departure_token # "")
    IN  [i \in 1..Len(with_token) |-> with_token[i].departure_token]

\* C23 as stated: the return flights of every processed outbound offer are
\* looked up with the token SerpApi gave with that offer: the tokens of the
\* lookups are, in order, the tokens of the processed offers that have one.
C23_Original ==
    (/\ SearchDone({"search_round_trip_flights"}) /\ DatesOk
     /\ senv.enabled /\ senv.serp.kind # "fails") =>
        LookupTokens = OwnTokens

\* ---------------------------------------------------------------------------
\* Claims about the ranking of round trips.

\* a ranks no later than b: by price, then by stops (the departure times of
\* the flights are not modelled).
RanksNoLater(a, b) ==
    a.price.v < b.price.v \/ (a.price.v = b.price.v /\ a.stops <= b.stops)

\* The round trips search_round_trip_flights combined for the request.
RoundTripsMade ==
    CompleteRoundtrips(SerpResult(senv.serp),
                       outbound_to_process(convert_serpapi_response(SerpResult(senv.serp)))).roundtrips

\* C24 as stated: the round trips of a response are in ascending order of
\* combined price, those of one price in ascending order of stops, and the
\* single round trip of return_cheapest_only is first in that order among
\* the round trips combined.
C24_Original ==
    (RoundTripsReturned /\ senv.returns.kind = "answers") =>
        /\ \A i \in 1..(Len(sresponse.flights) - 1) :
              RanksNoLater(sresponse.flights[i], sresponse.flights[i + 1])
        /\ sreq.return_cheapest_only =>
              \A k \in 1..Len(RoundTripsMade) :
                  RanksNoLater(sresponse.flights[1], RoundTripsMade[k])

\* ---------------------------------------------------------------------------
\* Claims about a date-range batch in which a date pair fails.

\* The pairs of the accepted page the loop has been through.
SettledPairs == {date_pairs_to_check[i] : i \in 1..count}

\* Every source asked for the pair failed; a source returned flights for it.
PairFailed(p) ==
    /\ renv.bad_day # None /\ p[1] = renv.bad_day
    /\ renv.scraper \in {"RuntimeError", "Exception"}
PairGaveFlights(p) ==
    ~(renv.bad_day # None /\ p[1] = renv.bad_day) \/ renv.scraper = "flights"

\* C25: a date pair that fails does not end the batch. At every point of an
\* accepted batch the pairs gone through are dispatched, each has its one
\* result entry if it returned flights and its one error message if it
\* failed, in enumeration order; no response exists before every pair of the
\* page has been gone through, and the response holds those results and
\* messages.
C25_BatchSurvivesFailure ==
    (RangeChecked /\ ~RangeRejected) =>
        /\ rpc = "loop" => routput.kind = "none"
        /\ rpc = "done" => count = Len(date_pairs_to_check)
        /\ CalledPairs = SettledPairs
        /\ {<<results_data[i].departure_date, results_data[i].return_date>> :
               i \in 1..Len(results_data)} = {p \in SettledPairs : PairGaveFlights(p)}
        /\ Len(results_data) = Cardinality({p \in SettledPairs : PairGaveFlights(p)})
        /\ \A i \in 1..(Len(results_data) - 1) :
              LexLeq(<<results_data[i].departure_date, results_data[i].return_date>>,
                     <<results_data[i + 1].departure_date, results_data[i + 1].return_date>>)
        /\ {<<error_messages[i].depart, error_messages[i].ret>> :
               i \in 1..Len(error_messages)} = {p \in SettledPairs : PairFailed(p)}
        /\ Len(error_messages) = Cardinality({p \in SettledPairs : PairFailed(p)})
        /\ (rpc = "done" /\ routput.kind = "results") =>
              /\ routput.results = results_data
              /\ routput.errors_encountered = error_messages
        /\ (rpc = "done" /\ routput.kind # "results") =>
              results_data = <<>> /\ error_messages = <<>>

\* A batch has ended in which two pairs failed, with results for a pair
\* before them and for a pair after them.
C25_Witness ==
    /\ RangeChecked /\ rpc = "done" /\ routput.kind = "results"
    /\ Len(routput.errors_encountered) >= 2
    /\ \E i, j \in 1..Len(routput.results) :
          /\ routput.results[i].departure_date < renv.bad_day
          /\ routput.results[j].departure_date > renv.bad_day

----------------------------------------------------------------------------
\* Claims about the per-segment fallback of get_multi_city_flights.

\* The scraper's multi-city call was made and failed with IndexError or
\* RuntimeError.
MultiCityCallFailed ==
    /\ spc = "done" /\ sreq.tool = "get_multi_city_flights"
    /\ \E i \in 1..Len(scalls) :
          scalls[i].source = "fast-flights" /\ scalls[i].trip = "multi-city"
    /\ senv.scraper.kind = "raise"
    /\ senv.scraper.type \in {"IndexError", "RuntimeError"}

\* The one-way searches issued, in order.
LegCalls ==
    SelectSeq(scalls, LAMBDA c : c.source = "fast-flights" /\ c.trip = "one-way")

\* What the entry of a segment holds, by the answer to its search.
EntryKind(outcome) ==
    IF outcome.kind = "flights" THEN "flights"
    ELSE IF outcome.kind = "empty" THEN "message" ELSE "error"

\* C26: when the scraper's multi-city call fails with IndexError or
\* RuntimeError, every segment is searched once, one way, in segment order;
\* the response has one entry per requested segment, in order, holding the
\* flights, the no-flights message or the error of that segment's own search,
\* whatever the earlier segments did; and "warning" is a key of the response
\* iff at least one segment yielded no flights or an error.
C26_SegmentsSearchedSeparately ==
    MultiCityCallFailed =>
        LET segments == sreq.flight_segments.items
        IN  /\ Len(LegCalls) = Len(segments)
            /\ \A i \in 1..Len(LegCalls) : LegCalls[i].segment_number = i
            /\ sresponse.kind = "message"
            /\ Len(sresponse.flights) = Len(segments)
            /\ \A i \in 1..Len(segments) :
                  LET entry == sresponse.flights[i]
                  IN  /\ entry.segment_number = i
                      /\ entry.has = EntryKind(senv.segment[i])
                      /\ entry.has = "flights" <=> entry.flights # <<>>
                      /\ entry.has = "error" => entry.error = senv.segment[i].msg
            /\ ("warning" \in DOMAIN sresponse)
                  <=> \E i \in 1..Len(segments) : senv.segment[i].kind # "flights"

\* A trip of three legs: the search of the first raises, the second finds
\* flights, the third finds none.
C26_Witness ==
    /\ MultiCityCallFailed
    /\ Len(sreq.flight_segments.items) = 3
    /\ senv.segment[1].kind = "raise"
    /\ senv.segment[2].kind = "flights"
    /\ senv.segment[3].kind = "empty"
    /\ sresponse.flights[2].flights # <<>>
    /\ "warning" \in DOMAIN sresponse

----------------------------------------------------------------------------
\* Claims about the Amadeus token cache.

\* The seconds of validity a token response states (1799 when it states none).
StatedExpiresIn(result) ==
    IF "expires_in" \in DOMAIN result.body THEN result.body.expires_in.value ELSE 1799

\* get_access_token returns without a token request only the cached token
\* and only strictly before the recorded expiry.
CachedOnlyBeforeExpiry ==
    \A c \in 1..MaxCallers :
        (callers[c].pc = "idle" /\ callers'[c].pc = "returned") =>
            /\ access_token # None /\ token_expiry # None /\ now < token_expiry
            /\ callers'[c].token = access_token
            /\ trequests' = trequests

\* The expiry is only ever recorded from a token response, as the time of
\* the response plus its expires_in minus 60 seconds.
ExpiryFromResponse ==
    token_expiry' # token_expiry =>
        \E c \in 1..MaxCallers :
            /\ callers[c].pc = "posted" /\ callers'[c].pc = "returned"
            /\ token_expiry' = now + StatedExpiresIn(callers'[c].result) - 60

\* A get_access_token that raises leaves the cached token and expiry as
\* they were.
FailureLeavesCache ==
    \A c \in 1..MaxCallers :
        (callers[c].pc # "raised" /\ callers'[c].pc = "raised") =>
            /\ access_token' = access_token
            /\ token_expiry' = token_expiry

\* After a get_access_token that raised, amadeus_request sends nothing; an
\* API request carries the token its get_access_token returned.
NoRequestAfterFailure ==
    \A c \in 1..MaxCallers :
        /\ (callers[c].pc = "raised" /\ callers'[c] # callers[c]) =>
              trequests' = trequests
        /\ (callers[c].pc = "returned" /\ callers'[c].pc = "idle") =>
              trequests' = Append(trequests, [kind |-> "api", caller |-> c,
                                              token |-> callers[c].token])

\* C27: after any sequence of get_access_token calls, token responses and
\* clock advances, the cached token is returned without a token request only
\* strictly before the recorded expiry; the recorded expiry is the time of
\* the token response plus expires_in minus 60 seconds; a failed token
\* request leaves the cached token and expiry unchanged and raises, and no
\* API request is sent after it.
C27_Original ==
    [][/\ CachedOnlyBeforeExpiry
       /\ ExpiryFromResponse
       /\ FailureLeavesCache
       /\ NoRequestAfterFailure]_vars

\* C27 without its clause on the cache after a failed token request (what
\* of the claim the code does keep).
C27_KeptClauses ==
    [][CachedOnlyBeforeExpiry /\ ExpiryFromResponse /\ NoRequestAfterFailure]_vars

\* C28: under any interleaving of get_access_token calls, the cached pair is
\* a token together with the expiry computed from the same token response,
\* and every caller returns a token that a successful token response issued.
C28_Original ==
    /\ \/ access_token = None /\ token_expiry = None
       \/ <<access_token, token_expiry>> \in issued
    /\ \A c \in 1..MaxCallers :
          callers[c].pc = "returned" => \E p \in issued : p[1] = callers[c].token

\* Two calls started with nothing cached; the cache then holds the token of
\* the second response under the expiry of the first, and is valid.
C28_MixedPair ==
    /\ access_token # None /\ token_expiry # None /\ now < token_expiry
    /\ <<access_token, token_expiry>> \notin issued
    /\ \E p \in issued : p[2] = token_expiry /\ p[1] # access_token

----------------------------------------------------------------------------
\* Claims about the pagination block of the date-range response.

\* The pairs of the slice that was processed.
ProcessedSlice == {date_pairs_to_check[i] : i \in 1..Len(date_pairs_to_check)}

\* An enumerated pair lies after the processed slice.
PairsRemain ==
    \E p \in WantedPairs \ ProcessedSlice : \A q \in ProcessedSlice : LexLeq(q, p)

\* C29: in the response, pagination.has_more is true exactly when an
\* enumerated date pair lies after the slice that was processed, for every
\* offset >= 0 and every limit (limit <= 0 processes all pairs from offset),
\* and pagination.total_date_pairs is the number of enumerated pairs.
C29_Original ==
    (RangeChecked /\ rpc = "done" /\ "pagination" \in DOMAIN routput) =>
        /\ routput.pagination.has_more <=> PairsRemain
        /\ routput.pagination.total_date_pairs = Cardinality(WantedPairs)

\* C29 for the pages with a positive limit (what of the claim the code does
\* keep).
C29_PositiveLimit ==
    (RangeChecked /\ rpc = "done" /\ "pagination" \in DOMAIN routput /\ rreq.limit > 0) =>
        /\ ProcessedSlice # {}
        /\ routput.pagination.has_more <=> PairsRemain
        /\ routput.pagination.total_date_pairs = Cardinality(WantedPairs)

----------------------------------------------------------------------------
\* Claims about the stops code sent to SerpApi.

\* The SerpApi searches of the call whose max_stops is None, 0, 1 or 2.
StopsCalls ==
    SelectSeq(scalls, LAMBDA c : c.source = "SerpApi" /\ c.max_stops \in {None, 0, 1, 2})

\* The provider code of a maximum number of stops: 1 nonstop, 2 one stop or
\* fewer, 3 two stops or fewer; None when the parameter is not sent.
ProviderStopsCode(max_stops) == IF max_stops = None THEN None ELSE max_stops + 1

\* C30: get_flights_from_serpapi and SerpAPIClient.search_flights send the
\* same stops code for every max_stops in {0, 1, 2}, namely max_stops + 1
\* (so 0 is never sent for "direct only"), and omit the parameter when
\* max_stops is None.
C30_Original ==
    spc = "done" =>
        \A i \in 1..Len(StopsCalls) :
            StopsCalls[i].stops = ProviderStopsCode(StopsCalls[i].max_stops)

\* C30 for the tools that search through get_flights_from_serpapi (what of
\* the claim the code does keep).
C30_ServerAdapter ==
    (spc = "done" /\ sreq.tool # "hybrid_flight_search") =>
        \A i \in 1..Len(StopsCalls) :
            StopsCalls[i].stops = ProviderStopsCode(StopsCalls[i].max_stops)

====
